---------------------------- MODULE Spec2Model ----------------------------
(***************************************************************************)
(* kikuchipy format dispatch (kikuchipy/io/_io.py): reading and writing    *)
(* of signals through the plugin list, footprint matching of HDF5 files    *)
(* and signal subclass resolution.                                         *)
(*                                                                         *)
(* Strings are sequences of one-character strings, so that lower(),        *)
(* lstrip(), split("/") and the os.path functions are computed character   *)
(* by character.  Python dicts are functions; a Python value of several    *)
(* possible types is a record with a tag t.                                *)
(***************************************************************************)
EXTENDS Integers, Sequences, FiniteSets, TLC

VARIABLES
    signal_registry, \* the signal classes find_subclasses finds in kikuchipy.signals
    fs,     \* the file system: absolute path |-> file, for the existing files
    pc,     \* "idle" between calls, "done" when a call has returned or raised
    op,     \* the function called last
    arg,    \* its arguments
    res     \* its outcome: what it returned or raised, and what it invoked

vars == <<signal_registry, fs, pc, op, arg, res>>

----------------------------------------------------------------------------
(* Bounds of the model *)

\* Top-level members of an HDF5 file handed to the footprint matcher.
MaxMembers == 2
\* Candidate plugins handed to the footprint matcher.
MaxCandidates == 3

\* Signal dictionaries a file_reader returns.
MaxRecords == 2
\* Files there are at any time.
MaxFiles == 1
\* Extent of a navigation axis of the arrays chunked.
MaxExtent == 3
\* Rows of factors and of loadings.
MaxRows == 4
----------------------------------------------------------------------------
(* Python str *)

UPPER == <<"A", "B", "C", "D", "E", "F", "G", "H", "I", "J", "K", "L", "M",
           "N", "O", "P", "Q", "R", "S", "T", "U", "V", "W", "X", "Y", "Z">>
LOWER == <<"a", "b", "c", "d", "e", "f", "g", "h", "i", "j", "k", "l", "m",
           "n", "o", "p", "q", "r", "s", "t", "u", "v", "w", "x", "y", "z">>

char_lower(c) ==
    IF \E i \in 1..26 : UPPER[i] = c
    THEN LOWER[CHOOSE i \in 1..26 : UPPER[i] = c]
    ELSE c

RECURSIVE str_lower(_)
str_lower(s) ==
    IF s = <<>> THEN <<>> ELSE <<char_lower(Head(s))>> \o str_lower(Tail(s))

RECURSIVE str_lstrip(_)
str_lstrip(s) ==
    IF s # <<>> /\ Head(s) = " " THEN str_lstrip(Tail(s)) ELSE s

\* s.rfind(c) + 1: the last position of c in s, 0 when c is not in s.
str_rfind(s, c) ==
    IF \E i \in 1..Len(s) : s[i] = c
    THEN CHOOSE i \in 1..Len(s) : s[i] = c /\ \A j \in (i + 1)..Len(s) : s[j] # c
    ELSE 0

RECURSIVE str_split(_, _)
str_split(s, sep) ==
    IF \A i \in 1..Len(s) : s[i] # sep
    THEN <<s>>
    ELSE LET k == CHOOSE i \in 1..Len(s) :
                      s[i] = sep /\ \A j \in 1..(i - 1) : s[j] # sep
         IN  <<SubSeq(s, 1, k - 1)>> \o str_split(SubSeq(s, k + 1, Len(s)), sep)

\* sub in s, for two str.
str_contains(s, sub) ==
    \E i \in 0..(Len(s) - Len(sub)) : SubSeq(s, i + 1, i + Len(sub)) = sub

\* s.replace(old, ""), for a character old.
str_remove(s, old) == SelectSeq(s, LAMBDA c : c # old)

----------------------------------------------------------------------------
(* os.path (posixpath), on str *)

\* The current working directory of the process.
cwd == <<"/", "w">>

isabs(p) == p # <<>> /\ Head(p) = "/"

RECURSIVE str_join(_, _)
str_join(parts, sep) ==
    IF parts = <<>> THEN <<>>
    ELSE IF Len(parts) = 1 THEN parts[1]
    ELSE parts[1] \o <<sep>> \o str_join(Tail(parts), sep)

RECURSIVE str_rstrip(_, _)
str_rstrip(s, c) ==
    IF s # <<>> /\ s[Len(s)] = c THEN str_rstrip(SubSeq(s, 1, Len(s) - 1), c)
    ELSE s

\* os.path.join(a, p) for two paths.
join(a, p) ==
    IF isabs(p) THEN p
    ELSE IF a = <<>> \/ a[Len(a)] = "/" THEN a \o p
    ELSE a \o <<"/">> \o p

(* normpath of an absolute path: empty and "." components are dropped and  *)
(* ".." removes the component before it.                                   *)
RECURSIVE normpath_comps(_, _)
normpath_comps(comps, new) ==
    IF comps = <<>> THEN new
    ELSE LET c == Head(comps)
         IN  IF c = <<>> \/ c = <<".">>
             THEN normpath_comps(Tail(comps), new)
             ELSE IF c = <<".", ".">>
             THEN normpath_comps(Tail(comps),
                                 IF new = <<>> THEN new
                                 ELSE SubSeq(new, 1, Len(new) - 1))
             ELSE normpath_comps(Tail(comps), Append(new, c))

normpath(p) == <<"/">> \o str_join(normpath_comps(str_split(p, "/"), <<>>), "/")

abspath(p) == normpath(join(cwd, p))

\* os.path.split(p): (head, tail), tail the part after the last slash.
split(p) ==
    LET i == str_rfind(p, "/")
        head == SubSeq(p, 1, i)
        tail == SubSeq(p, i + 1, Len(p))
    IN  IF head # <<>> /\ \E k \in 1..Len(head) : head[k] # "/"
        THEN <<str_rstrip(head, "/"), tail>>
        ELSE <<head, tail>>

(* os.path.splitext(p): (root, ext); ext starts at the last dot of the     *)
(* last component, unless that component has only dots before it.          *)
splitext(p) ==
    LET sepIndex == str_rfind(p, "/")
        dotIndex == str_rfind(p, ".")
    IN  IF /\ dotIndex > sepIndex
           /\ \E k \in (sepIndex + 1)..(dotIndex - 1) : p[k] # "."
        THEN <<SubSeq(p, 1, dotIndex - 1), SubSeq(p, dotIndex, Len(p))>>
        ELSE <<p, <<>>>>

\* os.path.splitext(filename)[1][1:]
extension_of(filename) == LET e == splitext(filename)[2] IN SubSeq(e, 2, Len(e))

----------------------------------------------------------------------------
(* The plugins *)

s_h5 == <<"h", "5">>
s_hdf5 == <<"h", "d", "f", "5">>
s_h5ebsd == <<"h", "5", "e", "b", "s", "d">>
s_tif == <<"t", "i", "f">>
s_tiff == <<"t", "i", "f", "f">>
s_bmp == <<"b", "m", "p">>
s_png == <<"p", "n", "g">>
s_up1 == <<"u", "p", "1">>
s_up2 == <<"u", "p", "2">>
s_dat == <<"d", "a", "t">>
s_txt == <<"t", "x", "t">>
s_ebsp == <<"e", "b", "s", "p">>
s_h5oina == <<"h", "5", "o", "i", "n", "a">>
s_hspy == <<"h", "s", "p", "y">>
s_manufacturer ==
    <<"m", "a", "n", "u", "f", "a", "c", "t", "u", "r", "e", "r">>
s_version == <<"v", "e", "r", "s", "i", "o", "n">>
s_software_version ==
    <<"s", "o", "f", "t", "w", "a", "r", "e", " ", "v", "e", "r", "s",
      "i", "o", "n">>
s_bruker_nano == <<"b", "r", "u", "k", "e", "r", " ", "n", "a", "n", "o">>
s_edax == <<"e", "d", "a", "x">>
s_kikuchipy == <<"k", "i", "k", "u", "c", "h", "i", "p", "y">>
s_oxford_instruments ==
    <<"o", "x", "f", "o", "r", "d", " ", "i", "n", "s", "t", "r", "u",
      "m", "e", "n", "t", "s">>
s_emdata_ebsd_ebsdpatterns ==
    <<"e", "m", "d", "a", "t", "a", "/", "e", "b", "s", "d", "/", "e",
      "b", "s", "d", "p", "a", "t", "t", "e", "r", "n", "s">>
s_emdata_ebsdmaster ==
    <<"e", "m", "d", "a", "t", "a", "/", "e", "b", "s", "d", "m", "a",
      "s", "t", "e", "r">>
s_emdata_ecpmaster ==
    <<"e", "m", "d", "a", "t", "a", "/", "e", "c", "p", "m", "a", "s",
      "t", "e", "r">>
s_emdata_tkdmaster ==
    <<"e", "m", "d", "a", "t", "a", "/", "t", "k", "d", "m", "a", "s",
      "t", "e", "r">>

\* An optional module attribute (footprint, manufacturer): hasattr and value.
NoAttr == [has |-> FALSE, v |-> <<>>]
Attr(v) == [has |-> TRUE, v |-> v]
\* writes: True, False, or a list of (signal dimension, navigation dimension).
WritesBool(b) == [is_bool |-> TRUE, v |-> b, shapes |-> {}]
WritesShapes(S) == [is_bool |-> FALSE, v |-> FALSE, shapes |-> S]

bruker_h5ebsd ==
    [format_name |-> "bruker_h5ebsd",
     file_extensions |-> <<s_h5, s_hdf5, s_h5ebsd>>,
     writes |-> WritesBool(FALSE),
     footprint |-> Attr(<<s_manufacturer, s_version>>),
     manufacturer |-> Attr(s_bruker_nano)]

ebsd_directory ==
    [format_name |-> "ebsd_directory",
     file_extensions |-> <<s_tif, s_tiff, s_bmp, s_png>>,
     writes |-> WritesBool(FALSE),
     footprint |-> NoAttr,
     manufacturer |-> NoAttr]

edax_binary ==
    [format_name |-> "edax_binary",
     file_extensions |-> <<s_up1, s_up2>>,
     writes |-> WritesBool(FALSE),
     footprint |-> NoAttr,
     manufacturer |-> NoAttr]

edax_h5ebsd ==
    [format_name |-> "edax_h5ebsd",
     file_extensions |-> <<s_h5, s_hdf5, s_h5ebsd>>,
     writes |-> WritesBool(FALSE),
     footprint |-> Attr(<<s_manufacturer, s_version>>),
     manufacturer |-> Attr(s_edax)]

emsoft_ebsd ==
    [format_name |-> "emsoft_ebsd",
     file_extensions |-> <<s_h5, s_hdf5>>,
     writes |-> WritesBool(FALSE),
     footprint |-> Attr(<<s_emdata_ebsd_ebsdpatterns>>),
     manufacturer |-> NoAttr]

emsoft_ebsd_master_pattern ==
    [format_name |-> "emsoft_ebsd_master_pattern",
     file_extensions |-> <<s_h5, s_hdf5>>,
     writes |-> WritesBool(FALSE),
     footprint |-> Attr(<<s_emdata_ebsdmaster>>),
     manufacturer |-> NoAttr]

\* src/kikuchipy/io/plugins/emsoft_ecp_master_pattern.py, lines 30-43.
emsoft_ecp_master_pattern ==
    [format_name |-> "emsoft_ecp_master_pattern",
     file_extensions |-> <<s_h5, s_hdf5>>,
     writes |-> WritesBool(FALSE),
     footprint |-> Attr(<<s_emdata_ecpmaster>>),
     manufacturer |-> NoAttr]

emsoft_tkd_master_pattern ==
    [format_name |-> "emsoft_tkd_master_pattern",
     file_extensions |-> <<s_h5, s_hdf5>>,
     writes |-> WritesBool(FALSE),
     footprint |-> Attr(<<s_emdata_tkdmaster>>),
     manufacturer |-> NoAttr]

\* hyperspy.io_plugins.hspy: HyperSpy's own HDF5 format, read and written.
hspy ==
    [format_name |-> "hspy",
     file_extensions |-> <<s_hspy, s_hdf5>>,
     writes |-> WritesBool(TRUE),
     footprint |-> NoAttr,
     manufacturer |-> NoAttr]

kikuchipy_h5ebsd ==
    [format_name |-> "kikuchipy_h5ebsd",
     file_extensions |-> <<s_h5, s_hdf5, s_h5ebsd>>,
     writes |-> WritesShapes({<<2, 2>>, <<2, 1>>, <<2, 0>>}),
     footprint |-> Attr(<<s_manufacturer, s_version>>),
     manufacturer |-> Attr(s_kikuchipy)]

nordif ==
    [format_name |-> "nordif",
     file_extensions |-> <<s_dat>>,
     writes |-> WritesShapes({<<2, 2>>, <<2, 1>>, <<2, 0>>}),
     footprint |-> NoAttr,
     manufacturer |-> NoAttr]

nordif_calibration_patterns ==
    [format_name |-> "nordif_calibration_patterns",
     file_extensions |-> <<s_txt>>,
     writes |-> WritesBool(FALSE),
     footprint |-> NoAttr,
     manufacturer |-> NoAttr]

oxford_binary ==
    [format_name |-> "oxford_binary",
     file_extensions |-> <<s_ebsp>>,
     writes |-> WritesBool(FALSE),
     footprint |-> NoAttr,
     manufacturer |-> NoAttr]

oxford_h5ebsd ==
    [format_name |-> "oxford_h5ebsd",
     file_extensions |-> <<s_h5oina>>,
     writes |-> WritesBool(FALSE),
     footprint |-> Attr(<<s_manufacturer, s_software_version>>),
     manufacturer |-> Attr(s_oxford_instruments)]

plugins ==
    <<bruker_h5ebsd, ebsd_directory, edax_binary, edax_h5ebsd, emsoft_ebsd,
      emsoft_ebsd_master_pattern, emsoft_ecp_master_pattern,
      emsoft_tkd_master_pattern, hspy, kikuchipy_h5ebsd, nordif,
      nordif_calibration_patterns, oxford_binary, oxford_h5ebsd>>

----------------------------------------------------------------------------
(* _plugin_from_footprints *)

(* An HDF5 group is the sequence of its members in iteration order; a      *)
(* member is a group (is_group, members) or a dataset (value).  A dataset  *)
(* value is a str, a bytes, a NumPy array of n bytes elements, or a        *)
(* number.                                                                 *)
Dataset(name, value) ==
    [name |-> name, is_group |-> FALSE, members |-> <<>>, value |-> value]
Group(name, members) ==
    [name |-> name, is_group |-> TRUE, members |-> members,
     value |-> [type |-> "none", n |-> 0, text |-> <<>>]]
StrValue(text) == [type |-> "str", n |-> 0, text |-> text]
BytesValue(text) == [type |-> "bytes", n |-> 0, text |-> text]
ArrayValue(n, text) == [type |-> "ndarray", n |-> n, text |-> text]
IntValue == [type |-> "int", n |-> 0, text |-> <<>>]

(* Values of the structure dict d and results of _exists: a nested dict,   *)
(* the marker 1, the original key of a manufacturer dataset, or None.      *)
DictNode(d) == [t |-> "dict", d |-> d, s |-> <<>>]
OneNode == [t |-> "int", d |-> <<>>, s |-> <<>>]
StrNode(s) == [t |-> "str", d |-> <<>>, s |-> s]
NoneNode == [t |-> "None", d |-> <<>>, s |-> <<>>]
TypeErrorNode == [t |-> "TypeError", d |-> <<>>, s |-> <<>>]

RECURSIVE _hdf5group2dict(_)
_hdf5group2dict(group) ==
    IF group = <<>>
    THEN <<>>
    ELSE LET d == _hdf5group2dict(SubSeq(group, 1, Len(group) - 1))
             m == group[Len(group)]
             key_lower == str_lower(str_lstrip(m.name))
             val == IF m.is_group
                    THEN DictNode(_hdf5group2dict(m.members))
                    ELSE IF key_lower = s_manufacturer
                         THEN StrNode(m.name)
                         ELSE OneNode
         IN  [k \in DOMAIN d \cup {key_lower} |->
                 IF k = key_lower THEN val ELSE d[k]]

(* _exists(obj, chain): None when the first key of chain is not in obj,    *)
(* else the entry the chain leads to.  "key in obj" raises TypeError when  *)
(* obj is the marker 1, and is a substring test when obj is a str, where   *)
(* obj[key] then raises TypeError.                                         *)
RECURSIVE _exists(_, _)
_exists(obj, chain) ==
    LET key == Head(chain)
        rest == Tail(chain)
    IN  CASE obj.t = "dict" ->
                 IF key \in DOMAIN obj.d
                 THEN IF rest # <<>> THEN _exists(obj.d[key], rest)
                      ELSE obj.d[key]
                 ELSE NoneNode
          [] obj.t = "str" ->
                 IF str_contains(obj.s, key) THEN TypeErrorNode ELSE NoneNode
          [] OTHER -> TypeErrorNode

Returned(i) == [t |-> "plugin", i |-> i]
ReturnedNone == [t |-> "None", i |-> 0]
Raised(e) == [t |-> e, i |-> 0]

\* The indices of the candidates that have the attribute, in order.
plugins_with_footprints(ps) ==
    SelectSeq([i \in 1..Len(ps) |-> i], LAMBDA i : ps[i].footprint.has)
plugins_with_manufacturer(ps) ==
    SelectSeq(plugins_with_footprints(ps), LAMBDA i : ps[i].manufacturer.has)

(* man = f[val][()] with its unwrapping, lines 268-272: a length-1 array   *)
(* gives its element, bytes are decoded.  f[val] raises TypeError when val *)
(* is not a name (the member called manufacturer is a group).              *)
read_manufacturer(root, val) ==
    IF val.t # "str"
    THEN [type |-> "TypeError", n |-> 0, text |-> <<>>]
    ELSE LET m == CHOOSE x \in {root[i] : i \in 1..Len(root)} : x.name = val.s
             man == m.value
             man1 == IF man.type = "ndarray" /\ man.n = 1
                     THEN BytesValue(man.text) ELSE man
         IN  IF man1.type = "bytes" THEN StrValue(man1.text) ELSE man1

(* The manufacturer pass, lines 265-276: the first candidate with the tag. *)
(* man.lower() raises AttributeError on what is not a str, when there is a *)
(* plugin to compare it with.                                              *)
manufacturer_pass(root, d, ps) ==
    IF s_manufacturer \notin DOMAIN d
    THEN ReturnedNone
    ELSE LET man == read_manufacturer(root, d[s_manufacturer])
             pm == plugins_with_manufacturer(ps)
             hits == {k \in 1..Len(pm) :
                         str_lower(man.text) = ps[pm[k]].manufacturer.v}
         IN  IF man.type = "TypeError" THEN Raised("TypeError")
             ELSE IF pm = <<>> THEN ReturnedNone
             ELSE IF man.type # "str" THEN Raised("AttributeError")
             ELSE IF hits = {} THEN ReturnedNone
             ELSE Returned(pm[CHOOSE k \in hits : \A j \in hits : k <= j])

\* Mutant of footprint_match: one present footprint path is enough.
footprint_match_any(d, p) ==
    LET found == [k \in 1..Len(p.footprint.v) |->
                     _exists(DictNode(d), str_split(str_lower(p.footprint.v[k]), "/"))]
    IN  IF \E k \in 1..Len(found) : found[k].t = "TypeError" THEN "TypeError"
        ELSE IF \E k \in 1..Len(found) : found[k].t # "None"
             THEN "match"
             ELSE "no match"

\* Lines 281-287 for one plugin: "match", "no match" or "TypeError".
footprint_match(d, p) ==
    LET found == [k \in 1..Len(p.footprint.v) |->
                     _exists(DictNode(d), str_split(str_lower(p.footprint.v[k]), "/"))]
    IN  IF \E k \in 1..Len(found) : found[k].t = "TypeError" THEN "TypeError"
        ELSE IF Cardinality({k \in 1..Len(found) : found[k].t # "None"})
                  = Len(p.footprint.v)
             THEN "match"
             ELSE "no match"

\* The structural pass, lines 279-289, from the k-th footprint plugin on.
RECURSIVE structural_pass(_, _, _)
structural_pass(d, ps, k) ==
    LET pf == plugins_with_footprints(ps)
    IN  IF k > Len(pf) THEN ReturnedNone
        ELSE LET r == footprint_match(d, ps[pf[k]])
             IN  IF r = "TypeError" THEN Raised("TypeError")
                 ELSE IF r = "match" THEN Returned(pf[k])
                 ELSE structural_pass(d, ps, k + 1)

\* Mutant of _plugin_from_footprints: the structural pass runs first.
_plugin_from_footprints_structural_first(root, ps) ==
    LET d == _hdf5group2dict(root)
        matching_plugin == structural_pass(d, ps, 1)
    IN  IF matching_plugin.t = "None"
        THEN manufacturer_pass(root, d, ps)
        ELSE matching_plugin

\* root: the file's root group; ps: the candidate plugins.
_plugin_from_footprints(root, ps) ==
    LET d == _hdf5group2dict(root)
        matching_plugin == manufacturer_pass(root, d, ps)
    IN  IF matching_plugin.t = "None"
        THEN structural_pass(d, ps, 1)
        ELSE matching_plugin

----------------------------------------------------------------------------
(* _assign_signal_subclass *)

s_float == <<"f", "l", "o", "a", "t">>
s_int == <<"i", "n", "t">>
s_void == <<"v", "o", "i", "d">>
s_bool == <<"b", "o", "o", "l">>
s_object == <<"o", "b", "j", "e", "c", "t">>

\* NumPy dtype names of the data of a signal dictionary.
s_uint8 == <<"u", "i", "n", "t", "8">>
s_float32 == <<"f", "l", "o", "a", "t", "3", "2">>
s_complex128 == <<"c", "o", "m", "p", "l", "e", "x", "1", "2", "8">>

SignalClass(name, lazy, dim, type, aliases) ==
    [name |-> name, _lazy |-> lazy, _dtype |-> "real",
     _signal_dimension |-> dim, _signal_type |-> type,
     _alias_signal_types |-> aliases]

\* The signal classes of kikuchipy.signals.
kikuchipy_signals ==
    {SignalClass("EBSD", FALSE, 2, "EBSD",
                 {"electron_backscatter_diffraction"}),
     SignalClass("LazyEBSD", TRUE, 2, "EBSD",
                 {"electron_backscatter_diffraction"}),
     SignalClass("EBSDMasterPattern", FALSE, 2, "EBSDMasterPattern",
                 {"ebsd_master_pattern", "master_pattern"}),
     SignalClass("LazyEBSDMasterPattern", TRUE, 2, "EBSDMasterPattern",
                 {"ebsd_master_pattern", "master_pattern"}),
     SignalClass("ECPMasterPattern", FALSE, 2, "ECPMasterPattern",
                 {"ecp_master_pattern"}),
     SignalClass("LazyECPMasterPattern", TRUE, 2, "ECPMasterPattern",
                 {"ecp_master_pattern"}),
     SignalClass("VirtualBSEImage", FALSE, 2, "VirtualBSEImage", {})}

(* What find_subclasses(kikuchipy.signals, BaseSignal) can give: the       *)
(* classes of kikuchipy.signals alone; with the two untyped 2D signal      *)
(* classes the package builds on; with a further class that takes "EBSD"   *)
(* as an alias.                                                            *)
SignalRegistries ==
    {kikuchipy_signals,
     kikuchipy_signals \cup
         {SignalClass("Signal2D", FALSE, 2, "", {}),
          SignalClass("KikuchipySignal2D", FALSE, 2, "", {})},
     kikuchipy_signals \cup
         {SignalClass("EBSDCopy", FALSE, 2, "EBSD2", {"EBSD"}),
          SignalClass("Signal1D", FALSE, 1, "", {})}}

ValueError(msg) == [t |-> "ValueError", cls |-> "", msg |-> msg]
ReturnedClass(name) == [t |-> "class", cls |-> name, msg |-> ""]

\* Mutant of _assign_signal_subclass: one of several matches is returned.
_assign_signal_subclass_first_match(subclasses, dtype, signal_dimension, signal_type, lazy) ==
    LET matches == {s \in subclasses :
                       /\ s._lazy = lazy
                       /\ s._signal_dimension = signal_dimension.v
                       /\ \/ signal_type = s._signal_type
                          \/ signal_type \in s._alias_signal_types}
    IN  IF matches # {}
        THEN ReturnedClass((CHOOSE s \in matches : TRUE).name)
        ELSE ValueError("No kikuchipy signals match")

(* subclasses: what find_subclasses returns; dtype: dtype.name;            *)
(* signal_dimension: the value v and whether it is an int.                 *)
_assign_signal_subclass(subclasses, dtype, signal_dimension, signal_type, lazy) ==
    IF ~(\/ str_contains(dtype, s_float)
         \/ str_contains(dtype, s_int)
         \/ str_contains(dtype, s_void)
         \/ str_contains(dtype, s_bool)
         \/ str_contains(dtype, s_object))
    THEN ValueError("Data type not understood")
    ELSE IF ~signal_dimension.is_int \/ signal_dimension.v < 0
    THEN ValueError("Signal dimension must be a positive integer")
    ELSE LET signals == {v \in subclasses : v._lazy = lazy}
             dtype_matches == {s \in signals : s._dtype = "real"}
             dtype_dim_matches ==
                 {s \in dtype_matches :
                     s._signal_dimension = signal_dimension.v}
             dtype_dim_type_matches ==
                 {s \in dtype_dim_matches :
                     \/ signal_type = s._signal_type
                     \/ signal_type \in s._alias_signal_types}
         IN  IF Cardinality(dtype_dim_type_matches) = 1
             THEN ReturnedClass((CHOOSE s \in dtype_dim_type_matches : TRUE).name)
             ELSE ValueError("No kikuchipy signals match")

----------------------------------------------------------------------------
(* _dict2signal *)

(* A Python dict with str keys is a function on its keys.                  *)
EmptyDict == <<>>
dict_del(d, key) == [k \in DOMAIN d \ {key} |-> d[k]]
dict_set(d, key, val) ==
    [k \in DOMAIN d \cup {key} |-> IF k = key THEN val ELSE d[k]]

NoSignal ==
    [cls |-> "", _lazy |-> FALSE, metadata |-> EmptyDict,
     tmp_parameters |-> EmptyDict]

\* The signal the class builds from the dictionary: cls(**signal_dict).
new_signal(cls, lazy, signal_dict) ==
    [cls |-> cls, _lazy |-> lazy,
     metadata |-> IF "metadata" \in DOMAIN signal_dict
                  THEN signal_dict["metadata"] ELSE EmptyDict,
     tmp_parameters |-> EmptyDict]

(* The outcome of _dict2signal: the signal returned or the error raised,   *)
(* the caller's dictionary as the call leaves it, and whether              *)
(* _assign_signal_subclass was called.                                     *)
D2SRaised(msg, signal_dict, resolved) ==
    [t |-> "ValueError", msg |-> msg, signal |-> NoSignal,
     signal_dict |-> signal_dict, resolved |-> resolved]
D2SReturned(signal, signal_dict) ==
    [t |-> "signal", msg |-> "", signal |-> signal,
     signal_dict |-> signal_dict, resolved |-> TRUE]

has_record_by(signal_dict) ==
    /\ "metadata" \in DOMAIN signal_dict
    /\ "Signal" \in DOMAIN signal_dict["metadata"]
    /\ "record_by" \in DOMAIN signal_dict["metadata"]["Signal"]

\* Lines 196-205, after the record_by check.
_dict2signal_resolve(subclasses, signal_dict, lazy) ==
    LET md == IF "metadata" \in DOMAIN signal_dict
              THEN signal_dict["metadata"] ELSE EmptyDict
        signal_type ==
            IF "Signal" \in DOMAIN md /\ "signal_type" \in DOMAIN md["Signal"]
            THEN md["Signal"]["signal_type"]
            ELSE ""
        cls == _assign_signal_subclass(subclasses, signal_dict["data"].dtype,
                                       [is_int |-> TRUE, v |-> 2],
                                       signal_type, lazy)
    IN  IF cls.t = "class"
        THEN D2SReturned(new_signal(cls.cls, lazy, signal_dict), signal_dict)
        ELSE D2SRaised(cls.msg, signal_dict, TRUE)

\* The dictionary after del md["Signal"]["record_by"].
without_record_by(signal_dict) ==
    LET md == signal_dict["metadata"]
    IN  dict_set(signal_dict, "metadata",
                 dict_set(md, "Signal", dict_del(md["Signal"], "record_by")))

\* Mutant of _dict2signal: record_by is not checked, only removed.
_dict2signal_unchecked(subclasses, signal_dict, lazy) ==
    IF has_record_by(signal_dict)
    THEN _dict2signal_resolve(subclasses, without_record_by(signal_dict), lazy)
    ELSE _dict2signal_resolve(subclasses, signal_dict, lazy)

\* Mutant of _dict2signal: a dictionary without record_by is refused.
_dict2signal_required(subclasses, signal_dict, lazy) ==
    IF ~has_record_by(signal_dict)
    THEN D2SRaised("kikuchipy only supports", signal_dict, FALSE)
    ELSE IF signal_dict["metadata"]["Signal"]["record_by"] # "image"
    THEN D2SRaised("kikuchipy only supports", signal_dict, FALSE)
    ELSE _dict2signal_resolve(subclasses, without_record_by(signal_dict), lazy)

\* subclasses: what find_subclasses returns in _assign_signal_subclass.
_dict2signal(subclasses, signal_dict, lazy) ==
    IF has_record_by(signal_dict)
    THEN IF signal_dict["metadata"]["Signal"]["record_by"] # "image"
         THEN D2SRaised("kikuchipy only supports", signal_dict, FALSE)
         ELSE _dict2signal_resolve(subclasses, without_record_by(signal_dict),
                                   lazy)
    ELSE _dict2signal_resolve(subclasses, signal_dict, lazy)

----------------------------------------------------------------------------
(* Files *)

(* A file is HDF5 (hdf5, with its root group) or something else.  The file *)
(* system fs maps the absolute path of every existing file to the file.    *)
File(is_hdf5, root) == [hdf5 |-> is_hdf5, root |-> root]

isfile(fsys, filename) == abspath(filename) \in DOMAIN fsys

\* h5py.is_hdf5(filename): False for what is no file.
is_hdf5(fsys, filename) ==
    isfile(fsys, filename) /\ fsys[abspath(filename)].hdf5

\* A directory exists when it is above the working directory or above a file.
isdir(fsys, filename) ==
    LET d == abspath(filename)
        under(p) == /\ Len(p) > Len(d)
                    /\ SubSeq(p, 1, Len(d)) = d
                    /\ (d = <<"/">> \/ p[Len(d) + 1] = "/")
    IN  d = cwd \/ under(cwd) \/ \E p \in DOMAIN fsys : under(p)

\* fnmatch.fnmatch(name, pat) for a pattern of characters and "*".
RECURSIVE fnmatch(_, _)
fnmatch(name, pat) ==
    IF pat = <<>> THEN name = <<>>
    ELSE IF Head(pat) = "*"
    THEN \E k \in 0..Len(name) : fnmatch(SubSeq(name, k + 1, Len(name)), Tail(pat))
    ELSE name # <<>> /\ Head(name) = Head(pat) /\ fnmatch(Tail(name), Tail(pat))

(* len(glob.glob(filename)) > 0.  Without "*" the path itself must exist.  *)
(* With "*" in the last component, a file of that directory must match; a  *)
(* name with a leading dot matches only a pattern with a leading dot.      *)
glob_matches(fsys, filename) ==
    IF \A i \in 1..Len(filename) : filename[i] # "*"
    THEN isfile(fsys, filename) \/ isdir(fsys, filename)
    ELSE LET pat == split(abspath(filename))
         IN  \E p \in DOMAIN fsys :
                 /\ split(p)[1] = pat[1]
                 /\ fnmatch(split(p)[2], pat[2])
                 /\ (Head(split(p)[2]) = "." => Head(pat[2]) = ".")

----------------------------------------------------------------------------
(* load *)

\* extension.lower() in plugin.file_extensions
has_extension(plugin, extension) ==
    \E k \in 1..Len(plugin.file_extensions) :
        plugin.file_extensions[k] = str_lower(extension)

\* Lines 131-135: the indices in plugins of the readers of the extension.
readers_of(filename) ==
    SelectSeq([i \in 1..Len(plugins) |-> i],
              LAMBDA i : has_extension(plugins[i], extension_of(filename)))

\* The outcome of the choice of a reader: an index in plugins, None, an error.
Reader(i) == [t |-> "plugin", i |-> i, msg |-> ""]
NoReader(t, msg) == [t |-> t, i |-> 0, msg |-> msg]

\* Mutant of select_reader: without a reader of the extension, hspy reads.
select_reader_default(fsys, filename) ==
    LET readers == readers_of(filename)
    IN  IF Len(readers) = 0
        THEN Reader(CHOOSE i \in 1..Len(plugins) : plugins[i] = hspy)
        ELSE Reader(readers[1])

\* Mutant of select_reader: the footprint matcher is never asked.
select_reader_first(fsys, filename) ==
    LET readers == readers_of(filename)
    IN  IF Len(readers) = 0
        THEN NoReader("IOError", "Could not read")
        ELSE Reader(readers[1])

\* Lines 130-144: reader, or the error raised.
select_reader(fsys, filename) ==
    LET readers == readers_of(filename)
    IN  IF Len(readers) = 0
        THEN NoReader("IOError", "Could not read")
        ELSE IF Len(readers) > 1 /\ is_hdf5(fsys, filename)
        THEN LET m == _plugin_from_footprints(
                          fsys[abspath(filename)].root,
                          [k \in 1..Len(readers) |-> plugins[readers[k]]])
             IN  IF m.t = "plugin" THEN Reader(readers[m.i])
                 ELSE NoReader(m.t, "")
        ELSE Reader(readers[1])

(* The outcome of load: what is returned ("signal": one signal, out[1];    *)
(* "list": the list out) or raised; selected: the reader chosen, invoked:  *)
(* the plugin whose file_reader was called (indices in plugins, 0: none).  *)
LoadRaised(t, msg, selected, invoked) ==
    [t |-> t, msg |-> msg, selected |-> selected, invoked |-> invoked,
     out |-> <<>>]
LoadReturned(selected, out) ==
    [t |-> IF Len(out) = 1 THEN "signal" ELSE "list", msg |-> "",
     selected |-> selected, invoked |-> selected, out |-> out]

\* Lines 152-156: the tmp_parameters set from the current value of filename.
tmp_parameters_of(filename) ==
    LET directory == split(abspath(filename))[1]
        name == split(abspath(filename))[2]
    IN  [folder |-> directory,
         filename |-> splitext(name)[1],
         extension |-> str_remove(splitext(name)[2], ".")]

\* Lines 152-153: the value the loop body leaves in filename.
filename_after(filename) == splitext(split(abspath(filename))[2])[1]

(* Lines 149-156: the loop over the signal dictionaries.  The result is    *)
(* the list out, or the error of _dict2signal.                             *)
RECURSIVE load_signals(_, _, _, _, _)
load_signals(subclasses, signal_dicts, lazy, filename, out) ==
    IF signal_dicts = <<>>
    THEN [t |-> "ok", msg |-> "", out |-> out]
    ELSE LET s == _dict2signal(subclasses, Head(signal_dicts), lazy)
         IN  IF s.t # "signal"
             THEN [t |-> s.t, msg |-> s.msg, out |-> <<>>]
             ELSE load_signals(
                      subclasses, Tail(signal_dicts), lazy,
                      filename_after(filename),
                      Append(out, [s.signal EXCEPT !.tmp_parameters =
                                      tmp_parameters_of(filename)]))

(* reader_out: what the file_reader of the chosen plugin does with the     *)
(* file: it raises, or returns a list of signal dictionaries.              *)
load(fsys, subclasses, filename, lazy, reader_out) ==
    IF ~isfile(fsys, filename) /\ ~glob_matches(fsys, filename)
    THEN LoadRaised("IOError", "No filename matches", 0, 0)
    ELSE LET reader == select_reader(fsys, filename)
         IN  IF reader.t = "None"
             THEN LoadRaised("AttributeError", "", 0, 0)
             ELSE IF reader.t # "plugin"
             THEN LoadRaised(reader.t, reader.msg, 0, 0)
             ELSE IF reader_out.raises
             THEN LoadRaised("ReaderError", "", reader.i, reader.i)
             ELSE LET r == load_signals(subclasses, reader_out.signal_dicts,
                                        lazy, filename, <<>>)
                  IN  IF r.t = "ok" THEN LoadReturned(reader.i, r.out)
                      ELSE LoadRaised(r.t, r.msg, reader.i, reader.i)

----------------------------------------------------------------------------
(* _save *)

s_scan == <<"S", "c", "a", "n", " ">>
digit(n) == <<"0", "1", "2", "3", "4", "5", "6", "7", "8", "9">>[n + 1]
scan_name(n) == s_scan \o <<digit(n)>>

\* The root group of a kikuchipy h5ebsd file with the scans of the numbers.
kikuchipy_root(scans) ==
    <<Dataset(s_manufacturer, StrValue(<<"k", "i", "k", "u", "c", "h", "i", "p", "y">>)),
      Dataset(s_version, StrValue(<<"0">>))>>
    \o [k \in 1..Len(scans) |-> Group(scan_name(scans[k]), <<>>)]

\* The numbers of the scans in a root group, in the order of the members.
RECURSIVE scans_in(_)
scans_in(root) ==
    IF root = <<>> THEN <<>>
    ELSE (IF \E n \in 0..9 : Head(root).name = scan_name(n) /\ Head(root).is_group
          THEN <<CHOOSE n \in 0..9 : Head(root).name = scan_name(n)>>
          ELSE <<>>) \o scans_in(Tail(root))

\* Keyword arguments of a writer: add_scan is "absent" when not passed.
Kwargs(add_scan, scan_number) ==
    [add_scan |-> add_scan, scan_number |-> scan_number]

WriterRaised(t, fsys) == [t |-> t, fs |-> fsys]
WriterReturned(fsys) == [t |-> "None", fs |-> fsys]

(* file_writer of the kikuchipy_h5ebsd plugin.  With add_scan and a file   *)
(* at filename, the file must be a kikuchipy h5ebsd file without a scan of *)
(* that number, and the scan is added to it; otherwise the file is         *)
(* written anew with the one scan.                                         *)
kikuchipy_h5ebsd_file_writer(fsys, filename, kwargs) ==
    LET path == abspath(filename)
    IN  IF isfile(fsys, filename) /\ kwargs.add_scan = "True"
        THEN LET f == fsys[path]
                 d == IF f.hdf5 THEN _hdf5group2dict(f.root) ELSE <<>>
             IN  IF ~f.hdf5
                 THEN WriterRaised("OSError", fsys)
                 ELSE IF \/ s_manufacturer \notin DOMAIN d
                         \/ s_version \notin DOMAIN d
                         \/ d[s_manufacturer].t # "str"
                         \/ scans_in(f.root) = <<>>
                 THEN WriterRaised("IOError", fsys)
                 ELSE IF str_lower(d[s_manufacturer].s) # s_kikuchipy
                 THEN WriterRaised("IOError", fsys)
                 ELSE IF \E k \in 1..Len(scans_in(f.root)) :
                             scans_in(f.root)[k] = kwargs.scan_number
                 THEN WriterRaised("IOError", fsys)
                 ELSE WriterReturned(dict_set(fsys, path,
                          File(TRUE, Append(f.root,
                              Group(scan_name(kwargs.scan_number), <<>>)))))
        ELSE WriterReturned(dict_set(fsys, path,
                 File(TRUE, kikuchipy_root(<<kwargs.scan_number>>))))

\* file_writer of the nordif plugin: a binary file of the patterns.
nordif_file_writer(fsys, filename, kwargs) ==
    WriterReturned(dict_set(fsys, abspath(filename), File(FALSE, <<>>)))

\* file_writer of the hspy plugin: an HDF5 file with the group Experiments.
hspy_file_writer(fsys, filename, kwargs) ==
    WriterReturned(dict_set(fsys, abspath(filename),
        File(TRUE, <<Group(<<"E", "x", "p", "e", "r", "i", "m", "e", "n", "t", "s">>,
                           <<>>)>>)))

file_writer(writer, fsys, filename, kwargs) ==
    IF writer.format_name = "kikuchipy_h5ebsd"
    THEN kikuchipy_h5ebsd_file_writer(fsys, filename, kwargs)
    ELSE IF writer.format_name = "nordif"
    THEN nordif_file_writer(fsys, filename, kwargs)
    ELSE hspy_file_writer(fsys, filename, kwargs)

\* bool(plugin.writes)
writes_truthy(plugin) ==
    IF plugin.writes.is_bool THEN plugin.writes.v ELSE plugin.writes.shapes # {}

\* Mutant of save_target: the extension is chosen but not appended.
save_target_not_appended(filename) ==
    LET ext == extension_of(filename)
    IN  IF ext = <<>> THEN [ext |-> s_h5, filename |-> filename]
        ELSE [ext |-> ext, filename |-> filename]

\* Lines 395-398: the extension and the file name written to.
save_target(filename) ==
    LET ext == extension_of(filename)
    IN  IF ext = <<>>
        THEN [ext |-> s_h5, filename |-> filename \o <<".">> \o s_h5]
        ELSE [ext |-> ext, filename |-> filename]

\* Lines 400-404: the index in plugins of the writer, 0 for None.
select_writer(ext) ==
    LET writers == SelectSeq([i \in 1..Len(plugins) |-> i],
                       LAMBDA i : /\ has_extension(plugins[i], ext)
                                  /\ writes_truthy(plugins[i]))
    IN  IF writers = <<>> THEN 0 ELSE writers[1]

\* Mutant of cannot_write: every shape passes the check.
cannot_write_never(writer, sd, nd) == FALSE

\* Line 414: the shape check fails.
cannot_write(writer, sd, nd) ==
    /\ ~(writer.writes.is_bool /\ writer.writes.v)
    /\ <<sd, nd>> \notin writer.writes.shapes

\* Lines 416-423: the plugins listed in the error message, as indices.
writing_plugins(sd, nd) ==
    SelectSeq([i \in 1..Len(plugins) |-> i],
        LAMBDA i : \/ (plugins[i].writes.is_bool /\ plugins[i].writes.v)
                   \/ /\ ~(plugins[i].writes.is_bool /\ ~plugins[i].writes.v)
                      /\ <<sd, nd>> \in plugins[i].writes.shapes)

(* overwrite and add_scan are "None", "True", "False", or another text for *)
(* an object that is none of the three.                                    *)

\* Mutant of add_scan_block: a scan is added whatever add_scan is.
add_scan_block_always(writer, overwrite, add_scan, is_file, answer) ==
    IF writer.format_name = "kikuchipy_h5ebsd" /\ overwrite # "True" /\ is_file
    THEN [overwrite |-> "True", add_scan |-> "True",
          kwargs_add_scan |-> "True", asked |-> FALSE]
    ELSE [overwrite |-> overwrite, add_scan |-> add_scan,
          kwargs_add_scan |-> "absent", asked |-> FALSE]

(* Lines 433-443.  answer: what the user answers if asked.  The result is  *)
(* overwrite and add_scan as the block leaves them, the add_scan put into  *)
(* kwargs, and whether the question was asked.                             *)
add_scan_block(writer, overwrite, add_scan, is_file, answer) ==
    IF writer.format_name = "kikuchipy_h5ebsd" /\ overwrite # "True" /\ is_file
    THEN LET add_scan2 == IF add_scan = "None"
                          THEN (IF answer THEN "True" ELSE "False")
                          ELSE add_scan
         IN  [overwrite |-> IF add_scan2 = "True" THEN "True" ELSE overwrite,
              add_scan |-> add_scan2,
              kwargs_add_scan |-> add_scan2,
              asked |-> add_scan = "None"]
    ELSE [overwrite |-> overwrite, add_scan |-> add_scan,
          kwargs_add_scan |-> "absent", asked |-> FALSE]

\* Mutant of write_decision: overwrite=False writes over a file.
write_decision_over(overwrite, is_file, answer) ==
    IF overwrite = "None"
    THEN [write |-> IF is_file THEN (IF answer THEN "True" ELSE "False")
                    ELSE "True",
          asked |-> is_file]
    ELSE IF overwrite \in {"True", "False"}
    THEN [write |-> "True", asked |-> FALSE]
    ELSE [write |-> "ValueError", asked |-> FALSE]

(* Lines 446-456: write is "True" or "False", or "ValueError" is raised.   *)
(* overwrite_method asks only when the file exists.                        *)
write_decision(overwrite, is_file, answer) ==
    IF overwrite = "None"
    THEN [write |-> IF is_file THEN (IF answer THEN "True" ELSE "False")
                    ELSE "True",
          asked |-> is_file]
    ELSE IF overwrite = "True" \/ (overwrite = "False" /\ ~is_file)
    THEN [write |-> "True", asked |-> FALSE]
    ELSE IF overwrite = "False" /\ is_file
    THEN [write |-> "False", asked |-> FALSE]
    ELSE [write |-> "ValueError", asked |-> FALSE]

(* The outcome of _save: t is "None" when it returns; writer is the index  *)
(* of the writer in plugins; formats the plugins named in the message;     *)
(* is_file the local variable ("unset" before line 430); ensured:         *)
(* _ensure_directory was called (line 429); asked_add_scan                 *)
(* and asked_overwrite the answers given, "not asked" without question;    *)
(* invoked: file_writer was called, with filename and kwargs; signal and   *)
(* fs: the signal and the files as the call leaves them.                   *)
SaveResult(t, msg, writer, formats, is_file, asked_add_scan, asked_overwrite, invoked, filename, kwargs, signal, fsys) ==
    [t |-> t, msg |-> msg, writer |-> writer, formats |-> formats,
     ensured |-> is_file # "unset",
     is_file |-> is_file, asked_add_scan |-> asked_add_scan,
     asked_overwrite |-> asked_overwrite, invoked |-> invoked,
     filename |-> filename, kwargs |-> kwargs, signal |-> signal,
     fs |-> fsys]

answered(asked, answer) ==
    IF ~asked THEN "not asked" ELSE IF answer THEN "y" ELSE "n"

_save(fsys, filename, signal, overwrite, add_scan, scan_number, answer_add_scan, answer_overwrite) ==
    LET target == save_target(filename)
        ext == target.ext
        w == select_writer(ext)
        sd == signal.sd
        nd == signal.nd
        kw0 == Kwargs("absent", scan_number)
    IN  IF w = 0
        THEN SaveResult("ValueError", "does not correspond to any supported format",
                        0, <<>>, "unset", "not asked", "not asked", FALSE,
                        target.filename, kw0, signal, fsys)
        ELSE IF cannot_write(plugins[w], sd, nd)
        THEN SaveResult("ValueError", "This file format cannot write this data",
                        w, writing_plugins(sd, nd), "unset", "not asked",
                        "not asked", FALSE, target.filename, kw0, signal, fsys)
        ELSE
        LET is_file == isfile(fsys, target.filename)
            b == add_scan_block(plugins[w], overwrite, add_scan, is_file,
                                answer_add_scan)
            kw == Kwargs(b.kwargs_add_scan, scan_number)
            d == write_decision(b.overwrite, is_file, answer_overwrite)
            a1 == answered(b.asked, answer_add_scan)
            a2 == answered(d.asked, answer_overwrite)
            isf == IF is_file THEN "True" ELSE "False"
        IN  IF d.write = "ValueError"
            THEN SaveResult("ValueError", "overwrite parameter can only be",
                            w, <<>>, isf, a1, a2, FALSE, target.filename, kw,
                            signal, fsys)
            ELSE IF d.write = "False"
            THEN SaveResult("None", "", w, <<>>, isf, a1, a2, FALSE,
                            target.filename, kw, signal, fsys)
            ELSE
            LET wr == file_writer(plugins[w], fsys, target.filename, kw)
                name == split(abspath(target.filename))
                tmp == [folder |-> name[1],
                        filename |-> splitext(name[2])[1],
                        extension |-> ext]
            IN  IF wr.t # "None"
                THEN SaveResult(wr.t, "", w, <<>>, isf, a1, a2, TRUE,
                                target.filename, kw, signal, wr.fs)
                ELSE SaveResult("None", "", w, <<>>, isf, a1, a2, TRUE,
                                target.filename, kw,
                                [signal EXCEPT !.tmp_parameters = tmp], wr.fs)

----------------------------------------------------------------------------
(* Chunking (kikuchipy/signals/util/_dask.py) *)

(* A float is the fraction n / d of two integers, d > 0: byte budgets may  *)
(* be smaller than one byte.                                               *)
Frac(n, d) == [n |-> n, d |-> d]
frac_lt(a, b) == a.n * b.d < b.n * a.d
frac_le(a, b) == a.n * b.d <= b.n * a.d
\* a < x and a <= x for an integer a and a float x
int_lt(a, x) == a * x.d < x.n
int_le(a, x) == a * x.d <= x.n
\* max(1, x)
frac_max1(x) == IF x.n < x.d THEN Frac(1, 1) ELSE x
\* ceil(a / b) and floor(a / b) for integers a >= 0, b > 0
ceil_div(a, b) == (a + b - 1) \div b
floor_div(a, b) == a \div b

RECURSIVE pow(_, _)
pow(b, e) == IF e = 0 THEN 1 ELSE b * pow(b, e - 1)

RECURSIVE prod(_)
prod(s) == IF s = <<>> THEN 1 ELSE Head(s) * prod(Tail(s))

RECURSIVE sum(_)
sum(s) == IF s = <<>> THEN 0 ELSE Head(s) + sum(Tail(s))

seq_max(s) == CHOOSE m \in {s[i] : i \in 1..Len(s)} : \A i \in 1..Len(s) : s[i] <= m

\* np.argmin and np.argmax: the first index of the least, greatest element.
argmin(s) ==
    CHOOSE i \in 1..Len(s) :
        /\ \A j \in 1..Len(s) : s[i] <= s[j]
        /\ \A j \in 1..(i - 1) : s[j] > s[i]
argmax(s) ==
    CHOOSE i \in 1..Len(s) :
        /\ \A j \in 1..Len(s) : s[i] >= s[j]
        /\ \A j \in 1..(i - 1) : s[j] < s[i]

(* What is asked for an axis: "auto", -1 (all of the axis), a chunk size,  *)
(* or the tuple of the chunks.  Axes are counted from 1.                   *)
ChunkAuto == [k |-> "auto", v |-> 0, c |-> <<>>]
ChunkAll == [k |-> "all", v |-> 0, c |-> <<>>]
ChunkSize(v) == [k |-> "size", v |-> v, c |-> <<>>]
ChunkTuple(c) == [k |-> "tuple", v |-> 0, c |-> c]

\* Mutant of blockdims_from_blockshape: the rest is a chunk also when 0.
blockdims_with_rest(s, c) == [i \in 1..(s \div c) |-> c] \o <<s % c>>

\* dask.array.core.blockdims_from_blockshape for one axis of extent s.
blockdims_from_blockshape(s, c) ==
    IF s = 0 THEN <<0>>
    ELSE [i \in 1..(s \div c) |-> c] \o (IF s % c # 0 THEN <<s % c>> ELSE <<>>)

(* dask.array.core.round_to(c, s), given int(c): a chunk size of at least  *)
(* 1 when c <= s, the multiple of s below c otherwise.                     *)
round_to(int_c, s) ==
    IF int_c <= s THEN (IF int_c < 1 THEN 1 ELSE int_c) ELSE (int_c \div s) * s

\* The axes that are "auto".
autos_of(chunks) == {i \in 1..Len(chunks) : chunks[i].k = "auto"}

\* math.prod of the chunk sizes of the axes that are not "auto".
largest_block(chunks) ==
    prod([i \in 1..Len(chunks) |->
            IF chunks[i].k = "auto" THEN 1
            ELSE IF chunks[i].k = "size" THEN chunks[i].v
            ELSE seq_max(chunks[i].c)])

(* auto_chunks: size = (limit / itemsize / largest_block) ** (1 / n) for   *)
(* n axes "auto"; small are the axes "auto" shorter than size.             *)
auto_small(chunks, shape, limit, itemsize) ==
    LET n == Cardinality(autos_of(chunks))
        lim == frac_max1(limit)
    IN  {i \in autos_of(chunks) :
            int_lt(pow(shape[i], n) * itemsize * largest_block(chunks), lim)}

\* int(size)
auto_int_size(chunks, shape, limit, itemsize) ==
    LET n == Cardinality(autos_of(chunks))
        lim == frac_max1(limit)
        fits(k) == int_le(pow(k, n) * itemsize * largest_block(chunks), lim)
    IN  CHOOSE k \in 0..seq_max(shape) :
            fits(k) /\ (k = seq_max(shape) \/ ~fits(k + 1))

\* auto_chunks with axes in small: they are not chunked, and it starts again.
auto_chunks_small(chunks, shape, limit, itemsize) ==
    [i \in 1..Len(chunks) |->
        IF i \in auto_small(chunks, shape, limit, itemsize)
        THEN ChunkTuple(<<shape[i]>>) ELSE chunks[i]]

\* auto_chunks without axes in small: the axes "auto" get round_to(size, s).
auto_chunks_round(chunks, shape, limit, itemsize) ==
    [i \in 1..Len(chunks) |->
        IF chunks[i].k = "auto"
        THEN ChunkSize(round_to(auto_int_size(chunks, shape, limit, itemsize),
                                shape[i]))
        ELSE chunks[i]]

RECURSIVE auto_chunks(_, _, _, _)
auto_chunks(chunks, shape, limit, itemsize) ==
    IF autos_of(chunks) = {} THEN chunks
    ELSE IF auto_small(chunks, shape, limit, itemsize) # {}
    THEN auto_chunks(auto_chunks_small(chunks, shape, limit, itemsize),
                     shape, limit, itemsize)
    ELSE auto_chunks_round(chunks, shape, limit, itemsize)

(* normalize_chunks for a dict: the tuple of what is asked for each axis   *)
(* of shape, -1 for an axis not in the dict and -1 replaced by the extent. *)
chunks_of_dict(chunks_dict, shape) ==
    [i \in 1..Len(shape) |->
        IF i \notin DOMAIN chunks_dict THEN ChunkSize(shape[i])
        ELSE IF chunks_dict[i].k = "all" THEN ChunkSize(shape[i])
        ELSE chunks_dict[i]]

\* The end of normalize_chunks: the tuple of the chunks of each axis.
chunks_of_sizes(chunks, shape) ==
    [i \in 1..Len(shape) |->
        IF chunks[i].k = "tuple" THEN chunks[i].c
        ELSE blockdims_from_blockshape(shape[i], chunks[i].v)]

\* da.core.normalize_chunks(chunks=chunks_dict, shape, limit, dtype)
normalize_chunks(chunks_dict, shape, limit, itemsize) ==
    chunks_of_sizes(
        auto_chunks(chunks_of_dict(chunks_dict, shape), shape, limit, itemsize),
        shape)

\* chunk_shape=None
NoChunkShape == [none |-> TRUE, v |-> 0]
ChunkShape(v) == [none |-> FALSE, v |-> v]

\* Mutant of get_chunks_dict: the signal axes are in chunks of 1.
get_chunks_dict_signal_ones(nav_dim, sig_dim, chunk_shape) ==
    [i \in 1..(nav_dim + sig_dim) |->
        IF i <= nav_dim
        THEN (IF chunk_shape.none THEN ChunkAuto ELSE ChunkSize(chunk_shape.v))
        ELSE ChunkSize(1)]

\* Lines 90-98: chunks_dict
get_chunks_dict(nav_dim, sig_dim, chunk_shape) ==
    [i \in 1..(nav_dim + sig_dim) |->
        IF i <= nav_dim
        THEN (IF chunk_shape.none THEN ChunkAuto ELSE ChunkSize(chunk_shape.v))
        ELSE ChunkAll]

get_chunking(data_shape, nav_dim, sig_dim, chunk_shape, chunk_bytes, itemsize) ==
    normalize_chunks(get_chunks_dict(nav_dim, sig_dim, chunk_shape),
                     data_shape, chunk_bytes, itemsize)

(* A dask array: the chunks of each axis; shape is the sum of the chunks   *)
(* and chunksize the largest chunk of each axis.                           *)
shape_of(dask_array) ==
    [i \in 1..Len(dask_array.chunks) |-> sum(dask_array.chunks[i])]
chunksize_of(dask_array) ==
    [i \in 1..Len(dask_array.chunks) |-> seq_max(dask_array.chunks[i])]

\* Lines 167-176: chunks_dict of _reduce_chunks, the four in 4 < chunk_bytes
\* being the bytes of a float32.
reduce_chunks_dict(dask_array, chunk_bytes) ==
    LET chunksize == chunksize_of(dask_array)
        ndim == Len(chunksize)
        nav_ndim == ndim - 2
        nav_chunksize == SubSeq(chunksize, 1, nav_ndim)
        chunks_dict == [i \in 1..ndim |->
                           IF i <= nav_ndim THEN ChunkAuto ELSE ChunkAll]
    IN  IF nav_ndim = 2
        THEN LET idx_min == argmin(nav_chunksize)
             IN  IF int_lt(nav_chunksize[idx_min]
                           * chunksize[ndim - 1] * chunksize[ndim] * 4,
                           chunk_bytes)
                 THEN [chunks_dict EXCEPT ![idx_min] = ChunkAll]
                 ELSE chunks_dict
        ELSE chunks_dict

\* Mutant of reduce_new_chunks: the chunks normalize_chunks gave, every axis.
reduce_new_chunks_normalized(dask_array, chunks_dict, chunks) == chunks

\* Lines 184-190: new_chunks
reduce_new_chunks(dask_array, chunks_dict, chunks) ==
    [i \in 1..Len(dask_array.chunks) |->
        IF chunks_dict[i].k = "all" THEN dask_array.chunks[i] ELSE chunks[i]]

_reduce_chunks(dask_array, chunk_bytes, itemsize) ==
    LET chunks_dict == reduce_chunks_dict(dask_array, chunk_bytes)
        chunks == normalize_chunks(chunks_dict, shape_of(dask_array),
                                   chunk_bytes, itemsize)
    IN  reduce_new_chunks(dask_array, chunks_dict, chunks)

(* _rechunk_learning_results.  An array is its shape (rows, columns) and   *)
(* the bytes of an element.                                                *)
nbytes(a) == a.shape[1] * a.shape[2] * a.itemsize

\* 2**20
MiB == 1048576

\* Line 256: suggested_size
suggested_size_of(mbytes_chunk) == Frac(mbytes_chunk.n * MiB, mbytes_chunk.d)

\* Mutant of num_chunks_of: one chunk, whatever the budget.
num_chunks_one(total_size, suggested_size) == 1

\* Line 260: num_chunks = np.ceil(total_size / suggested_size)
num_chunks_of(total_size, suggested_size) ==
    ceil_div(total_size * suggested_size.d, suggested_size.n)

\* Line 269: np.floor(size / 2)
halve(size) == size \div 2

\* Line 267: the condition of the loop
halving_goes_on(sizes, suggested_size) ==
    ~int_lt(sizes[1] + sizes[2], suggested_size)

\* Lines 268-269: one pass of the loop
halving_step(sizes) ==
    [sizes EXCEPT ![argmax(sizes)] = halve(sizes[argmax(sizes)])]

(* The outcome of _rechunk_learning_results: the list chunks, or the error *)
(* raised; branch is "loadings" (line 264) or "both" (lines 266-275);      *)
(* sizes the list of the loop.  -1 is the whole axis.                      *)
RechunkRaised(t, branch, sizes) ==
    [t |-> t, branch |-> branch, sizes |-> sizes, chunks |-> <<>>]
RechunkReturned(branch, sizes, chunks) ==
    [t |-> "list", branch |-> branch, sizes |-> sizes, chunks |-> chunks]

\* Mutant of rechunk_loadings: the loadings are not chunked either.
rechunk_loadings_whole(factors, loadings, suggested_size) ==
    RechunkReturned("loadings", <<nbytes(factors), nbytes(loadings)>>,
                    << <<-1, -1>>, <<-1, -1>> >>)

\* Line 264: only the first axis of loadings is chunked.
rechunk_loadings(factors, loadings, suggested_size) ==
    LET num_chunks == num_chunks_of(nbytes(factors) + nbytes(loadings),
                                    suggested_size)
    IN  RechunkReturned("loadings", <<nbytes(factors), nbytes(loadings)>>,
            << <<-1, -1>>, <<floor_div(loadings.shape[1], num_chunks), -1>> >>)

(* Lines 270-275, after the loop.  A size of 0 makes the division inf and  *)
(* int(inf) raises OverflowError.                                          *)
rechunk_both(factors, loadings, sizes) ==
    IF sizes[1] = 0 \/ sizes[2] = 0
    THEN RechunkRaised("OverflowError", "both", sizes)
    ELSE LET factors_chunks == ceil_div(nbytes(factors), sizes[1])
             loadings_chunks == ceil_div(nbytes(loadings), sizes[2])
         IN  RechunkReturned("both", sizes,
                 << <<floor_div(factors.shape[1], factors_chunks), -1>>,
                    <<floor_div(loadings.shape[1], loadings_chunks), -1>> >>)

RECURSIVE halving_loop(_, _)
halving_loop(sizes, suggested_size) ==
    IF halving_goes_on(sizes, suggested_size)
    THEN halving_loop(halving_step(sizes), suggested_size)
    ELSE sizes

_rechunk_learning_results(factors, loadings, mbytes_chunk) ==
    LET suggested_size == suggested_size_of(mbytes_chunk)
    IN  IF factors.shape[2] # loadings.shape[2]
        THEN RechunkRaised("ValueError", "none", <<>>)
        ELSE IF int_le(nbytes(factors), suggested_size)
        THEN rechunk_loadings(factors, loadings, suggested_size)
        ELSE rechunk_both(factors, loadings,
                 halving_loop(<<nbytes(factors), nbytes(loadings)>>,
                              suggested_size))

----------------------------------------------------------------------------
(* Inputs of the footprint matcher *)

MemberPool ==
    {Dataset(<<"M", "a", "n", "u", "f", "a", "c", "t", "u", "r", "e", "r">>, BytesValue(<<"E", "D", "A", "X">>)),
     Dataset(<<" ", "m", "a", "n", "u", "f", "a", "c", "t", "u", "r", "e", "r">>, ArrayValue(1, <<"K", "i", "k", "u", "c", "h", "i", "p", "y">>)),
     Dataset(s_manufacturer, ArrayValue(2, s_edax)),
     Group(<<"M", "A", "N", "U", "F", "A", "C", "T", "U", "R", "E", "R">>, <<>>),
     Dataset(<<"V", "e", "r", "s", "i", "o", "n">>, IntValue),
     Group(<<"A">>, <<Dataset(<<"B">>, IntValue)>>),
     Dataset(<<"a">>, IntValue),
     Dataset(<<"c">>, IntValue)}

\* A plugin declaring the footprint ["A/b", "c"] and no manufacturer.
plugin_ab ==
    [format_name |-> "ab",
     file_extensions |-> <<s_h5>>,
     writes |-> WritesBool(FALSE),
     footprint |-> Attr(<< <<"A", "/", "b">>, <<"c">> >>),
     manufacturer |-> NoAttr]

\* A second plugin with the manufacturer tag "edax".
plugin_c ==
    [format_name |-> "c",
     file_extensions |-> <<s_h5>>,
     writes |-> WritesBool(FALSE),
     footprint |-> Attr(<< <<"c">> >>),
     manufacturer |-> Attr(s_edax)]

\* A plugin with a manufacturer tag and no footprint.
plugin_nofp ==
    [format_name |-> "nofp",
     file_extensions |-> <<s_h5>>,
     writes |-> WritesBool(FALSE),
     footprint |-> NoAttr,
     manufacturer |-> Attr(s_kikuchipy)]

PluginPool ==
    {kikuchipy_h5ebsd, edax_h5ebsd, plugin_ab, plugin_c, plugin_nofp}

\* The sequences of at most n different elements of S.
RECURSIVE SeqsUpTo(_, _)
SeqsUpTo(S, n) ==
    IF n = 0
    THEN {<<>>}
    ELSE LET shorter == SeqsUpTo(S, n - 1)
         IN  shorter \cup
             {Append(s, x) : s \in {q \in shorter : Len(q) = n - 1}, x \in S}

Distinct(s) == \A i, j \in 1..Len(s) : i # j => s[i] # s[j]

\* HDF5 root groups: member names are unique within a group.
Roots ==
    {r \in SeqsUpTo(MemberPool, MaxMembers) :
        \A i, j \in 1..Len(r) : i # j => r[i].name # r[j].name}

CandidateLists == {ps \in SeqsUpTo(PluginPool, MaxCandidates) : Distinct(ps)}

----------------------------------------------------------------------------
(* Inputs of the signal resolver *)

DtypeNames == {s_uint8, s_float32, s_complex128, s_bool}

\* signal_dimension: an int from -1 to 3, or the float 2.0.
SignalDimensions ==
    {[is_int |-> TRUE, v |-> n] : n \in -1..3} \cup {[is_int |-> FALSE, v |-> 2]}

SignalTypes ==
    {"", "EBSD", "electron_backscatter_diffraction", "master_pattern", "ebsd"}

MetadataPool ==
    {EmptyDict,
     [Signal |-> EmptyDict],
     [Signal |-> [record_by |-> "image"]],
     [Signal |-> [record_by |-> "image", signal_type |-> "EBSD"]],
     [Signal |-> [record_by |-> "spectrum", signal_type |-> "EBSD"]],
     [Signal |-> [record_by |-> "", signal_type |-> "EBSD"]],
     [Signal |-> [signal_type |-> "EBSD"]],
     [Signal |-> [signal_type |-> "master_pattern"]],
     [Signal |-> [signal_type |-> ""]]}

SignalDicts ==
    {[data |-> [dtype |-> n]] : n \in DtypeNames} \cup
    {[data |-> [dtype |-> n], metadata |-> md] :
        n \in DtypeNames, md \in MetadataPool}

----------------------------------------------------------------------------
(* Inputs of load and _save *)

f_p == <<"p">>
f_p_h5 == <<"p", ".", "h", "5">>
f_d_p_H5 == <<"/", "d", "/", "p", ".", "H", "5">>
f_d_p == <<"/", "d", "/", "p">>
f_p_h4 == <<"p", ".", "h", "4">>
f_p_dat == <<"p", ".", "d", "a", "t">>
f_p_hspy == <<"p", ".", "h", "s", "p", "y">>
f_q_h5 == <<"q", ".", "h", "5">>
f_star_h5 == <<"*", ".", "h", "5">>
f_dot_h5 == <<".", "h", "5">>

LoadFilenames == {f_p, f_p_h5, f_d_p_H5, f_p_h4, f_p_dat, f_q_h5, f_star_h5}

SaveFilenames == {f_p, f_d_p, f_p_h5, f_d_p_H5, f_p_h4, f_p_dat, f_p_hspy, f_dot_h5}

\* The root group of an EDAX h5ebsd file.
edax_root ==
    <<Dataset(<<" ", "M", "a", "n", "u", "f", "a", "c", "t", "u", "r", "e", "r">>,
              BytesValue(<<"E", "D", "A", "X">>)),
      Dataset(<<" ", "V", "e", "r", "s", "i", "o", "n">>, StrValue(<<"8">>)),
      Group(<<"S", "c", "a", "n", " ", "1">>, <<>>)>>

\* The root group of an EMsoft ECP master pattern file.
ecp_root ==
    <<Group(<<"E", "M", "D", "a", "t", "a">>,
            <<Group(<<"E", "C", "P", "m", "a", "s", "t", "e", "r">>, <<>>)>>)>>

one_file(filename, f) == dict_set(EmptyDict, abspath(filename), f)

\* The files there are when the process starts.
InitialFileSystems ==
    {EmptyDict,
     one_file(f_p_h5, File(TRUE, kikuchipy_root(<<1>>))),
     one_file(f_p_h5, File(TRUE, ecp_root)),
     one_file(f_p_h5, File(TRUE, <<>>)),
     one_file(f_p_h5, File(FALSE, <<>>)),
     one_file(f_d_p_H5, File(TRUE, edax_root)),
     one_file(f_p_h4, File(TRUE, kikuchipy_root(<<1>>))),
     one_file(f_p_dat, File(FALSE, <<>>)),
     one_file(f_p, File(TRUE, kikuchipy_root(<<1>>)))}

\* The signal dictionaries a file_reader returns.
image_dict ==
    [data |-> [dtype |-> s_uint8],
     metadata |-> [Signal |-> [record_by |-> "image", signal_type |-> "EBSD"]]]
spectrum_dict ==
    [data |-> [dtype |-> s_uint8],
     metadata |-> [Signal |-> [record_by |-> "spectrum", signal_type |-> "EBSD"]]]

ReaderRaises == [raises |-> TRUE, signal_dicts |-> <<>>]
ReaderReturns(signal_dicts) == [raises |-> FALSE, signal_dicts |-> signal_dicts]

ReaderOutputs ==
    {ReaderRaises} \cup
    {ReaderReturns(s) : s \in SeqsUpTo({image_dict, spectrum_dict}, MaxRecords)}

\* The signals saved: the dimensions of the axes manager, no tmp_parameters.
SavedSignals ==
    {[sd |-> 2, nd |-> 2, tmp_parameters |-> EmptyDict],
     [sd |-> 1, nd |-> 2, tmp_parameters |-> EmptyDict]}

\* "'False'" is the str "False".
OverwriteValues == {"None", "True", "False", "'False'"}
AddScanValues == {"None", "True", "False"}
ScanNumbers == {1, 2}

----------------------------------------------------------------------------
(* Inputs of the chunking functions *)

\* The ways of cutting an axis of extent n into chunks.
Chunkings(n) == {c \in SeqsUpTo(1..n, n) : c # <<>> /\ sum(c) = n}

\* A navigation axis is whole, in chunks of 1, or in a chunk of 1 and the rest.
NavigationChunkings ==
    UNION {{c \in Chunkings(n) :
               \/ Len(c) = 1
               \/ \A k \in 1..Len(c) : c[k] = 1
               \/ Len(c) = 2 /\ c[1] = 1} : n \in 1..MaxExtent}

\* The two signal axes: whole, or one of them in chunks of 1.
SignalChunkings ==
    {<< <<2>>, <<2>> >>, << <<1, 1>>, <<2>> >>, << <<2>>, <<1, 1>> >>,
     << <<1>>, <<1>> >>}

\* Dask arrays of patterns: up to two navigation axes, two signal axes.
DaskArrays ==
    {[chunks |-> nav \o sig] :
        nav \in SeqsUpTo(NavigationChunkings, 2), sig \in SignalChunkings}

\* Byte budgets, from half a byte on.
ChunkBytes ==
    {Frac(1, 2), Frac(1, 1), Frac(4, 1), Frac(9, 1), Frac(17, 1), Frac(40, 1)}

\* Bytes of an element: uint8, float32.
ItemSizes == {1, 4}

ChunkShapes == {NoChunkShape, ChunkShape(1), ChunkShape(2), ChunkShape(5)}

\* data_shape with nav_dim and sig_dim: no, one or two navigation axes, one
\* or two signal axes.
ShapeSplits ==
    {[data_shape |-> s, nav_dim |-> n, sig_dim |-> Len(s) - n] :
        s \in SeqsUpTo(1..MaxExtent, 4) \ {<<>>}, n \in 0..2}

\* Learning results: factors and loadings of one element size.
LearningArrays(itemsize) ==
    {[shape |-> <<r, c>>, itemsize |-> itemsize] : r \in 1..MaxRows, c \in 1..2}

\* mbytes_chunk for a budget of k half bytes
HalfBytes(k) == Frac(k, 2 * MiB)

Budgets == {HalfBytes(k) : k \in {1, 2, 3, 4, 5, 8, 13, 20, 40, 100}}

----------------------------------------------------------------------------
(* Calls *)

Idle == [t |-> "idle"]

\* The process after import, with the classes of kikuchipy.signals.
Init ==
    /\ signal_registry = kikuchipy_signals
    /\ fs = EmptyDict
    /\ pc = "idle"
    /\ op = "none"
    /\ arg = Idle
    /\ res = Idle

\* The process after import, with any of the sets of signal classes.
InitResolver ==
    /\ signal_registry \in SignalRegistries
    /\ fs = EmptyDict
    /\ pc = "idle"
    /\ op = "none"
    /\ arg = Idle
    /\ res = Idle

\* The call has returned or raised: the caller goes on.
Return ==
    /\ pc = "done"
    /\ pc' = "idle"
    /\ op' = "none"
    /\ arg' = Idle
    /\ res' = Idle
    /\ UNCHANGED <<signal_registry, fs>>

CallPluginFromFootprints ==
    /\ pc = "idle"
    /\ \E root \in Roots, ps \in CandidateLists :
        /\ arg' = [root |-> root, plugins |-> ps]
        /\ res' = _plugin_from_footprints(root, ps)
    /\ op' = "_plugin_from_footprints"
    /\ pc' = "done"
    /\ UNCHANGED <<signal_registry, fs>>

CallAssignSignalSubclass ==
    /\ pc = "idle"
    /\ \E dtype \in DtypeNames, signal_dimension \in SignalDimensions,
          signal_type \in SignalTypes, lazy \in BOOLEAN :
        /\ arg' = [dtype |-> dtype, signal_dimension |-> signal_dimension,
                   signal_type |-> signal_type, lazy |-> lazy]
        /\ res' = _assign_signal_subclass(signal_registry, dtype, signal_dimension,
                                          signal_type, lazy)
    /\ op' = "_assign_signal_subclass"
    /\ pc' = "done"
    /\ UNCHANGED <<signal_registry, fs>>

CallDict2Signal ==
    /\ pc = "idle"
    /\ \E signal_dict \in SignalDicts, lazy \in BOOLEAN :
        /\ arg' = [signal_dict |-> signal_dict, lazy |-> lazy]
        /\ res' = _dict2signal(signal_registry, signal_dict, lazy)
    /\ op' = "_dict2signal"
    /\ pc' = "done"
    /\ UNCHANGED <<signal_registry, fs>>

\* The process after import, with the files there are.
InitIO ==
    /\ signal_registry = kikuchipy_signals
    /\ fs \in InitialFileSystems
    /\ pc = "idle"
    /\ op = "none"
    /\ arg = Idle
    /\ res = Idle

CallLoad ==
    /\ pc = "idle"
    /\ \E filename \in LoadFilenames, lazy \in BOOLEAN,
          reader_out \in ReaderOutputs :
        /\ arg' = [filename |-> filename, lazy |-> lazy]
        /\ res' = load(fs, signal_registry, filename, lazy, reader_out)
    /\ op' = "load"
    /\ pc' = "done"
    /\ UNCHANGED <<signal_registry, fs>>

\* arg.fs: the files there were when _save was called.
CallSave ==
    /\ pc = "idle"
    /\ \E filename \in SaveFilenames, signal \in SavedSignals,
          overwrite \in OverwriteValues, add_scan \in AddScanValues,
          scan_number \in ScanNumbers, answer_add_scan \in BOOLEAN,
          answer_overwrite \in BOOLEAN :
        LET r == _save(fs, filename, signal, overwrite, add_scan, scan_number,
                       answer_add_scan, answer_overwrite)
        IN  /\ Cardinality(DOMAIN r.fs) <= MaxFiles
            /\ arg' = [filename |-> filename, signal |-> signal,
                       overwrite |-> overwrite, add_scan |-> add_scan,
                       scan_number |-> scan_number, fs |-> fs]
            /\ res' = r
            /\ fs' = r.fs
    /\ op' = "_save"
    /\ pc' = "done"
    /\ UNCHANGED signal_registry

NextFootprint == CallPluginFromFootprints \/ Return

SpecFootprint == Init /\ [][NextFootprint]_vars

NextResolver == CallAssignSignalSubclass \/ CallDict2Signal \/ Return

SpecResolver == InitResolver /\ [][NextResolver]_vars

Next == CallLoad \/ CallSave \/ Return

Spec == InitIO /\ [][Next]_vars

CallGetChunking ==
    /\ pc = "idle"
    /\ \E axes \in ShapeSplits, chunk_shape \in ChunkShapes,
          chunk_bytes \in ChunkBytes, itemsize \in ItemSizes :
        /\ axes.sig_dim \in 1..2
        /\ arg' = [data_shape |-> axes.data_shape, nav_dim |-> axes.nav_dim,
                   sig_dim |-> axes.sig_dim, chunk_shape |-> chunk_shape,
                   chunk_bytes |-> chunk_bytes, itemsize |-> itemsize]
        /\ res' = [t |-> "chunks",
                   chunks |-> get_chunking(axes.data_shape, axes.nav_dim,
                                  axes.sig_dim, chunk_shape, chunk_bytes,
                                  itemsize)]
    /\ op' = "get_chunking"
    /\ pc' = "done"
    /\ UNCHANGED <<signal_registry, fs>>

\* _reduce_chunks up to the call of normalize_chunks.
CallReduceChunks ==
    /\ pc = "idle"
    /\ \E dask_array \in DaskArrays, chunk_bytes \in ChunkBytes,
          itemsize \in ItemSizes :
        /\ arg' = [dask_array |-> dask_array, chunk_bytes |-> chunk_bytes,
                   itemsize |-> itemsize]
        /\ res' = [t |-> "running",
                   chunks_dict |-> reduce_chunks_dict(dask_array, chunk_bytes),
                   chunks |-> chunks_of_dict(
                       reduce_chunks_dict(dask_array, chunk_bytes),
                       shape_of(dask_array))]
    /\ op' = "_reduce_chunks"
    /\ pc' = "auto_chunks"
    /\ UNCHANGED <<signal_registry, fs>>

\* auto_chunks finds axes shorter than size and calls itself.
AutoChunksAgain ==
    /\ pc = "auto_chunks"
    /\ autos_of(res.chunks) # {}
    /\ auto_small(res.chunks, shape_of(arg.dask_array), arg.chunk_bytes,
                  arg.itemsize) # {}
    /\ res' = [res EXCEPT !.chunks =
                  auto_chunks_small(res.chunks, shape_of(arg.dask_array),
                                    arg.chunk_bytes, arg.itemsize)]
    /\ UNCHANGED <<signal_registry, fs, pc, op, arg>>

\* auto_chunks and normalize_chunks return, and _reduce_chunks after them.
ReduceChunksReturn ==
    /\ pc = "auto_chunks"
    /\ \/ autos_of(res.chunks) = {}
       \/ auto_small(res.chunks, shape_of(arg.dask_array), arg.chunk_bytes,
                     arg.itemsize) = {}
    /\ res' = [t |-> "chunks",
               chunks_dict |-> res.chunks_dict,
               chunks |-> reduce_new_chunks(arg.dask_array, res.chunks_dict,
                   chunks_of_sizes(
                       auto_chunks_round(res.chunks, shape_of(arg.dask_array),
                                         arg.chunk_bytes, arg.itemsize),
                       shape_of(arg.dask_array)))]
    /\ pc' = "done"
    /\ UNCHANGED <<signal_registry, fs, op, arg>>

\* _rechunk_learning_results up to the loop, or to its end without loop.
CallRechunkLearningResults ==
    /\ pc = "idle"
    /\ \E itemsize \in ItemSizes, mbytes_chunk \in Budgets :
       \E factors \in LearningArrays(itemsize),
          loadings \in LearningArrays(itemsize) :
        /\ arg' = [factors |-> factors, loadings |-> loadings,
                   mbytes_chunk |-> mbytes_chunk]
        /\ IF \/ factors.shape[2] # loadings.shape[2]
              \/ int_le(nbytes(factors), suggested_size_of(mbytes_chunk))
           THEN /\ res' = _rechunk_learning_results(factors, loadings,
                                                    mbytes_chunk)
                /\ pc' = "done"
           ELSE /\ res' = [t |-> "running", branch |-> "both",
                           sizes |-> <<nbytes(factors), nbytes(loadings)>>,
                           chunks |-> <<>>]
                /\ pc' = "halving"
    /\ op' = "_rechunk_learning_results"
    /\ UNCHANGED <<signal_registry, fs>>

\* One pass of the loop of lines 267-269.
HalvingStep ==
    /\ pc = "halving"
    /\ halving_goes_on(res.sizes, suggested_size_of(arg.mbytes_chunk))
    /\ res' = [res EXCEPT !.sizes = halving_step(res.sizes)]
    /\ UNCHANGED <<signal_registry, fs, pc, op, arg>>

\* The loop ends: lines 270-277.
HalvingExit ==
    /\ pc = "halving"
    /\ ~halving_goes_on(res.sizes, suggested_size_of(arg.mbytes_chunk))
    /\ res' = rechunk_both(arg.factors, arg.loadings, res.sizes)
    /\ pc' = "done"
    /\ UNCHANGED <<signal_registry, fs, op, arg>>

NextDask ==
    \/ CallGetChunking
    \/ CallReduceChunks
    \/ AutoChunksAgain
    \/ ReduceChunksReturn
    \/ CallRechunkLearningResults
    \/ HalvingStep
    \/ HalvingExit
    \/ Return

SpecDask == Init /\ [][NextDask]_vars

NextReduce ==
    CallReduceChunks \/ AutoChunksAgain \/ ReduceChunksReturn \/ Return

\* _reduce_chunks alone; the interpreter goes on with a call that is running.
FairSpecReduce == Init /\ [][NextReduce]_vars /\ WF_vars(NextReduce)
----------------------------------------------------------------------------
(* Footprint matching: what the HDF5 file holds, read off its groups *)

\* The member that iteration leaves under the lowercased, left-stripped name
\* key: the last one, as a later member replaces an earlier one in the dict.
MembersNamed(group, key) ==
    {i \in 1..Len(group) : str_lower(str_lstrip(group[i].name)) = key}
LastNamed(group, key) ==
    group[CHOOSE i \in MembersNamed(group, key) :
              \A j \in MembersNamed(group, key) : j <= i]

\* The path segs leads through groups to a member of the file.
RECURSIVE PathPresent(_, _)
PathPresent(group, segs) ==
    /\ MembersNamed(group, Head(segs)) # {}
    /\ \/ Tail(segs) = <<>>
       \/ /\ LastNamed(group, Head(segs)).is_group
          /\ PathPresent(LastNamed(group, Head(segs)).members, Tail(segs))

\* Every footprint path of plugin p is present in the file.
FullyPresent(root, p) ==
    /\ p.footprint.has
    /\ \A k \in 1..Len(p.footprint.v) :
           PathPresent(root, str_split(str_lower(p.footprint.v[k]), "/"))

\* The file's manufacturer field is a str (or bytes, or a length-1 array of
\* bytes) whose lowercased value is the manufacturer tag of plugin p, and p
\* has a footprint.
ManufacturerMatch(root, p) ==
    /\ p.footprint.has
    /\ p.manufacturer.has
    /\ MembersNamed(root, s_manufacturer) # {}
    /\ LET m == LastNamed(root, s_manufacturer)
       IN  /\ ~m.is_group
           /\ \/ m.value.type \in {"str", "bytes"}
              \/ m.value.type = "ndarray" /\ m.value.n = 1
           /\ str_lower(m.value.text) = p.manufacturer.v

\* C3: in _plugin_from_footprints, a footprint-bearing candidate whose
\* manufacturer tag equals the lowercased manufacturer field of the file is
\* the plugin returned (the first one in candidate order, should several
\* carry the tag), wherever it stands among the candidates and whatever
\* footprints are present in the file; a plugin that the manufacturer did
\* not select is returned only when the manufacturer selects no candidate.
C3_ManufacturerPreferred ==
    op = "_plugin_from_footprints" =>
        LET root == arg.root
            ps == arg.plugins
        IN  /\ \A i \in 1..Len(ps) :
                   (/\ ManufacturerMatch(root, ps[i])
                    /\ \A j \in 1..(i - 1) : ~ManufacturerMatch(root, ps[j]))
                   => res = Returned(i)
            /\ (res.t = "plugin" /\ ~ManufacturerMatch(root, ps[res.i]))
                   => \A j \in 1..Len(ps) : ~ManufacturerMatch(root, ps[j])

\* C3 witness: the manufacturer selects a plugin that stands after a
\* candidate whose footprint is fully present in the file.
C3_Witness ==
    /\ op = "_plugin_from_footprints"
    /\ res.t = "plugin"
    /\ ManufacturerMatch(arg.root, arg.plugins[res.i])
    /\ ~FullyPresent(arg.root, arg.plugins[res.i])
    /\ \E j \in 1..(res.i - 1) :
           /\ FullyPresent(arg.root, arg.plugins[j])
           /\ ~ManufacturerMatch(arg.root, arg.plugins[j])

\* C4: a plugin returned by the structural pass of _plugin_from_footprints
\* has every one of its footprint paths present in the file, and no
\* candidate before it has; when the manufacturer selects no plugin and the
\* matcher returns, the first candidate with a fully present footprint is
\* returned.
C4_AllFootprintPaths ==
    op = "_plugin_from_footprints" =>
        LET root == arg.root
            ps == arg.plugins
            byManufacturer == \E j \in 1..Len(ps) : ManufacturerMatch(root, ps[j])
        IN  /\ (res.t = "plugin" /\ ~byManufacturer) =>
                   /\ FullyPresent(root, ps[res.i])
                   /\ \A j \in 1..(res.i - 1) : ~FullyPresent(root, ps[j])
            /\ (res.t = "None") =>
                   \A j \in 1..Len(ps) : ~FullyPresent(root, ps[j])

\* C4 witness: the structural pass passes over a candidate of which one
\* footprint path, but not every path, is present (the plugin declaring
\* ["A/b", "c"] on a file that has a/b and no c), and returns a later one.
C4_Witness ==
    /\ op = "_plugin_from_footprints"
    /\ res.t = "plugin"
    /\ \A j \in 1..Len(arg.plugins) : ~ManufacturerMatch(arg.root, arg.plugins[j])
    /\ \E j \in 1..(res.i - 1) :
           LET p == arg.plugins[j]
           IN  /\ p.footprint.has
               /\ ~FullyPresent(arg.root, p)
               /\ \E k \in 1..Len(p.footprint.v) :
                      PathPresent(arg.root,
                                  str_split(str_lower(p.footprint.v[k]), "/"))

----------------------------------------------------------------------------
(* Signal resolution: the classes that fit a request *)

\* The registered classes of the requested lazy/eager variant, of dtype
\* category "real", of the dimension dim and of the type or alias type.
ClassesFitting(lazy, dim, type) ==
    {c \in signal_registry :
        /\ c._lazy = lazy
        /\ c._dtype = "real"
        /\ c._signal_dimension = dim
        /\ (c._signal_type = type \/ type \in c._alias_signal_types)}

SomeClassName(S) == {c.name : c \in S}

\* The dtype name holds one of the names of the category "real".
UnderstoodDtype(name) ==
    \E w \in {s_float, s_int, s_void, s_bool, s_object} : str_contains(name, w)

\* C7: _assign_signal_subclass returns a class only when exactly one
\* registered class fits the request, and then that class; when no class or
\* several classes fit it raises ValueError, which for an understood dtype
\* and a non-negative int dimension is 'No kikuchipy signals match'; with
\* exactly one class fitting such a request, that class is returned.
C7_ExactlyOneMatch ==
    op = "_assign_signal_subclass" =>
        LET fit == ClassesFitting(arg.lazy, arg.signal_dimension.v,
                                  arg.signal_type)
            valid == /\ UnderstoodDtype(arg.dtype)
                     /\ arg.signal_dimension.is_int
                     /\ arg.signal_dimension.v >= 0
        IN  /\ res.t = "class" =>
                   Cardinality(fit) = 1 /\ res.cls \in SomeClassName(fit)
            /\ Cardinality(fit) # 1 => res.t = "ValueError"
            /\ (valid /\ Cardinality(fit) # 1) =>
                   res.msg = "No kikuchipy signals match"
            /\ (valid /\ Cardinality(fit) = 1) => res.t = "class"

\* C7 witness: two classes fit the request and ValueError is raised.
C7_Witness ==
    /\ op = "_assign_signal_subclass"
    /\ Cardinality(ClassesFitting(arg.lazy, arg.signal_dimension.v,
                                  arg.signal_type)) >= 2
    /\ res.t = "ValueError"
    /\ res.msg = "No kikuchipy signals match"

\* C8: _dict2signal, given a dictionary with Signal.record_by, raises
\* ValueError 'kikuchipy only supports' without calling the resolver and
\* without building a signal when the value is not "image", and removes the
\* field from the metadata when it is; no signal it returns has
\* Signal.record_by in its metadata.
C8_RecordByImageOnly ==
    op = "_dict2signal" =>
        /\ has_record_by(arg.signal_dict) =>
               IF arg.signal_dict["metadata"]["Signal"]["record_by"] = "image"
               THEN /\ res.msg # "kikuchipy only supports"
                    /\ "record_by" \notin
                           DOMAIN res.signal_dict["metadata"]["Signal"]
               ELSE /\ res.t = "ValueError"
                    /\ res.msg = "kikuchipy only supports"
                    /\ ~res.resolved
                    /\ res.signal = NoSignal
        /\ (res.t = "signal" /\ "Signal" \in DOMAIN res.signal.metadata) =>
               "record_by" \notin DOMAIN res.signal.metadata["Signal"]

\* C8 witness: a signal is built from a dictionary that had record_by "image".
C8_Witness ==
    /\ op = "_dict2signal"
    /\ has_record_by(arg.signal_dict)
    /\ res.t = "signal"
    /\ "Signal" \in DOMAIN res.signal.metadata

\* C9 as claimed: a dictionary without Signal.record_by is rejected, no
\* signal is built from it.
C9_AbsentRecordByRejected ==
    (op = "_dict2signal" /\ ~has_record_by(arg.signal_dict)) =>
        res.t # "signal"

\* C9 as amended: a dictionary without Signal.record_by is not checked for
\* it: _dict2signal never raises 'kikuchipy only supports' on it, and
\* returns a signal from it exactly when the dtype is understood and exactly
\* one 2D class fits its signal type ("" when it has none).
C9_AbsentRecordByAccepted ==
    (op = "_dict2signal" /\ ~has_record_by(arg.signal_dict)) =>
        LET d == arg.signal_dict
            type == IF /\ "metadata" \in DOMAIN d
                       /\ "Signal" \in DOMAIN d["metadata"]
                       /\ "signal_type" \in DOMAIN d["metadata"]["Signal"]
                    THEN d["metadata"]["Signal"]["signal_type"]
                    ELSE ""
        IN  /\ res.msg # "kikuchipy only supports"
            /\ res.resolved
            /\ res.t = "signal" <=>
                   /\ UnderstoodDtype(d["data"].dtype)
                   /\ Cardinality(ClassesFitting(arg.lazy, 2, type)) = 1

\* C9 witness: a signal is built from a dictionary that has a Signal section
\* without record_by.
C9_Witness ==
    /\ op = "_dict2signal"
    /\ "metadata" \in DOMAIN arg.signal_dict
    /\ "Signal" \in DOMAIN arg.signal_dict["metadata"]
    /\ ~has_record_by(arg.signal_dict)
    /\ res.t = "signal"

----------------------------------------------------------------------------
(* Claims about load and _save *)

\* The extensions a plugin declares.
DeclaredExtensions(plugin) ==
    {plugin.file_extensions[k] : k \in 1..Len(plugin.file_extensions)}

\* The indices of the plugins declaring the extension of the file loaded.
Declaring ==
    {i \in 1..Len(plugins) :
        str_lower(extension_of(arg.filename)) \in DeclaredExtensions(plugins[i])}

\* The root group of the file loaded.
LoadedRoot == fs[abspath(arg.filename)].root

\* The footprint matcher is asked: several candidates and an HDF5 file.
MatcherAsked == Cardinality(Declaring) > 1 /\ is_hdf5(fs, arg.filename)

\* The plugins declaring the extension, in the order of registration.
Candidates == SelectSeq(plugins, LAMBDA p :
    str_lower(extension_of(arg.filename)) \in DeclaredExtensions(p))

(* C1: load of an existing file whose lowercased extension no plugin       *)
(* declares raises IOError "Could not read"; no reader is invoked and no   *)
(* plugin is selected by default.                                          *)
C1_UnknownExtensionCouldNotRead ==
    (op = "load" /\ isfile(fs, arg.filename) /\ Declaring = {})
    => /\ res.t = "IOError"
       /\ res.msg = "Could not read"
       /\ res.selected = 0
       /\ res.invoked = 0

\* An existing kikuchipy file renamed to p.h4 is loaded and refused.
C1_Witness ==
    /\ op = "load"
    /\ arg.filename = f_p_h4
    /\ is_hdf5(fs, arg.filename)
    /\ res.t = "IOError"
    /\ res.msg = "Could not read"

(* C2: when several plugins declare the extension of an HDF5 file and the  *)
(* footprint matcher returns None, load raises IOError and invokes no      *)
(* reader.                                                                 *)
C2_NoFootprintMatchRaisesIOError ==
    (/\ op = "load"
     /\ MatcherAsked
     /\ _plugin_from_footprints(LoadedRoot, Candidates) = ReturnedNone)
    => /\ res.t = "IOError"
       /\ res.invoked = 0

(* C5: for every plugin P and every extension e that P declares, load of   *)
(* an existing file with extension e in any letter case selects P or a     *)
(* plugin registered before P.                                             *)
C5_SelectsDeclaringPluginOrEarlier ==
    (op = "load" /\ isfile(fs, arg.filename))
    => \A P \in Declaring : res.selected \in 1..P

(* C5, amended: load selects the first plugin declaring the extension      *)
(* unless the footprint matcher is asked; then it selects, among the       *)
(* plugins declaring the extension, one whose manufacturer or footprint    *)
(* matches the file, or none.                                              *)
C5_SelectsFirstOrMatched ==
    (op = "load" /\ isfile(fs, arg.filename) /\ Declaring # {})
    => /\ ~MatcherAsked
          => /\ res.selected \in Declaring
             /\ \A P \in Declaring : res.selected <= P
       /\ MatcherAsked
          => \/ res.selected = 0 /\ res.invoked = 0
             \/ /\ res.selected \in Declaring
                /\ \/ ManufacturerMatch(LoadedRoot, plugins[res.selected])
                   \/ FullyPresent(LoadedRoot, plugins[res.selected])

\* The EDAX file /d/p.H5 is read by edax_h5ebsd, registered after
\* bruker_h5ebsd, which declares h5 too.
C5_Witness ==
    /\ op = "load"
    /\ arg.filename = f_d_p_H5
    /\ isfile(fs, arg.filename)
    /\ res.selected # 0
    /\ plugins[res.selected] = edax_h5ebsd
    /\ \E P \in Declaring : P < res.selected
    /\ res.t = "list"

(* C6: every signal load returns has tmp_parameters.folder, filename and   *)
(* extension set to the absolute directory, the stem and the extension     *)
(* without dot of the file loaded.                                         *)
C6_EverySignalTagged ==
    (op = "load" /\ res.t \in {"signal", "list"})
    => \A k \in 1..Len(res.out) :
        LET name == split(abspath(arg.filename))
        IN  /\ res.out[k].tmp_parameters.folder = name[1]
            /\ res.out[k].tmp_parameters.filename = splitext(name[2])[1]
            /\ res.out[k].tmp_parameters.extension =
                   str_remove(splitext(name[2])[2], ".")

\* The signal can be written to kikuchipy's h5ebsd format.
WritableShape(signal) ==
    <<signal.sd, signal.nd>> \in kikuchipy_h5ebsd.writes.shapes

\* _save of a path without extension, no file at the path with ".h5".
SaveWithoutExtension ==
    /\ op = "_save"
    /\ extension_of(arg.filename) = <<>>
    /\ ~isfile(arg.fs, arg.filename \o <<".", "h", "5">>)
    /\ WritableShape(arg.signal)

\* _save has written a kikuchipy h5ebsd file at the path with ".h5".
WrittenWithH5 ==
    /\ res.t = "None"
    /\ res.writer # 0
    /\ plugins[res.writer] = kikuchipy_h5ebsd
    /\ res.invoked
    /\ res.filename = arg.filename \o <<".", "h", "5">>
    /\ isfile(fs, arg.filename \o <<".", "h", "5">>)
    /\ fs[abspath(arg.filename \o <<".", "h", "5">>)] =
           File(TRUE, kikuchipy_root(<<arg.scan_number>>))

(* C10: _save of a path without extension selects the kikuchipy h5ebsd     *)
(* writer, appends ".h5" and, when no file is at the resulting path and    *)
(* the shape is writable, writes there without raising.                    *)
C10_NoExtensionWritesH5 == SaveWithoutExtension => WrittenWithH5

(* C10, amended: the same when overwrite is None, True or False.           *)
C10_NoExtensionWritesH5ValidOverwrite ==
    (SaveWithoutExtension /\ arg.overwrite \in {"None", "True", "False"})
    => WrittenWithH5

\* /d/p is saved with the default overwrite and /d/p.h5 is written.
C10_Witness ==
    /\ SaveWithoutExtension
    /\ arg.filename = f_d_p
    /\ arg.overwrite = "None"
    /\ res.invoked
    /\ abspath(res.filename) \in DOMAIN fs

----------------------------------------------------------------------------
(* Claims about the checks and the write decision of _save *)

\* The file name _save writes to: ".h5" appended to one without extension.
Destination ==
    IF extension_of(arg.filename) = <<>>
    THEN arg.filename \o <<".", "h", "5">>
    ELSE arg.filename

\* A file was at the destination when _save was called.
DestinationExisted == isfile(arg.fs, Destination)

\* The writer has a list of shapes and the shape of the signal is not in it.
ShapeRefused ==
    /\ res.writer # 0
    /\ ~plugins[res.writer].writes.is_bool
    /\ <<arg.signal.sd, arg.signal.nd>> \notin plugins[res.writer].writes.shapes

\* Nothing was done: no directory, no question, no writer, no change.
NothingDone ==
    /\ ~res.ensured
    /\ res.asked_add_scan = "not asked"
    /\ res.asked_overwrite = "not asked"
    /\ ~res.invoked
    /\ fs = arg.fs
    /\ res.signal = arg.signal

(* C11: when the writer selected by _save writes only a list of shapes and *)
(* the (signal dimension, navigation dimension) of the signal is not in    *)
(* the list, _save raises ValueError "This file format cannot write this   *)
(* data" for every overwrite and add_scan, before a directory is created,  *)
(* a question asked or a writer invoked.                                   *)
C11_ShapeRefusedFirst ==
    (op = "_save" /\ ShapeRefused)
    => /\ res.t = "ValueError"
       /\ res.msg = "This file format cannot write this data"
       /\ NothingDone

\* A signal of shape (1, 2) is saved to the existing kikuchipy file p.h5
\* with an overwrite that is no bool and add_scan=True, and is refused.
C11_Witness ==
    /\ op = "_save"
    /\ ShapeRefused
    /\ plugins[res.writer] = kikuchipy_h5ebsd
    /\ DestinationExisted
    /\ arg.overwrite = "'False'"
    /\ arg.add_scan = "True"
    /\ res.t = "ValueError"
    /\ res.formats # <<>>

(* C12: for every overwrite other than None, True and False, _save with a  *)
(* writer found and a shape it can write raises ValueError "overwrite      *)
(* parameter can only be" and does not invoke the writer, whether or not   *)
(* a file is at the destination, for every writer and every add_scan.      *)
C12_InvalidOverwriteRaises ==
    (/\ op = "_save"
     /\ arg.overwrite \notin {"None", "True", "False"}
     /\ res.writer # 0
     /\ ~ShapeRefused)
    => /\ res.t = "ValueError"
       /\ res.msg = "overwrite parameter can only be"
       /\ ~res.invoked

\* A scan is added to the file at the destination: the add-scan block has
\* set overwrite to True.
ScanAdded ==
    /\ res.writer # 0
    /\ plugins[res.writer] = kikuchipy_h5ebsd
    /\ \/ arg.add_scan = "True"
       \/ arg.add_scan = "None" /\ res.asked_add_scan = "y"

(* C13: with overwrite=False, _save invokes the writer only if no file is  *)
(* at the destination when it is called; when a file is there the writer   *)
(* is not invoked, the file is left as it was and the tmp_parameters of    *)
(* the signal are unchanged.                                               *)
C13_SkipLeavesExistingFile ==
    (op = "_save" /\ arg.overwrite = "False" /\ DestinationExisted)
    => /\ ~res.invoked
       /\ fs = arg.fs
       /\ res.signal.tmp_parameters = arg.signal.tmp_parameters

(* C13, amended: the same unless a scan is added, i.e. unless the writer   *)
(* is kikuchipy_h5ebsd and add_scan is True or, being None, is answered    *)
(* with yes; then the writer is invoked with add_scan=True and what was in *)
(* the file stays in it.                                                   *)
C13_SkipLeavesExistingFileUnlessScanAdded ==
    (op = "_save" /\ arg.overwrite = "False" /\ DestinationExisted)
    => /\ ~ScanAdded
          => /\ ~res.invoked
             /\ fs = arg.fs
             /\ res.signal.tmp_parameters = arg.signal.tmp_parameters
       /\ (ScanAdded /\ ~ShapeRefused)
          => /\ res.invoked
             /\ res.kwargs.add_scan = "True"
             /\ LET before == arg.fs[abspath(Destination)].root
                    after == fs[abspath(Destination)].root
                IN  /\ Len(after) >= Len(before)
                    /\ SubSeq(after, 1, Len(before)) = before

\* The test: p.h5 holds Scan 1; saving scan 2 with overwrite=False and
\* add_scan=False leaves the file without Scan 2.
C13_Witness ==
    /\ op = "_save"
    /\ arg.overwrite = "False"
    /\ arg.add_scan = "False"
    /\ arg.scan_number = 2
    /\ arg.filename = f_p_h5
    /\ DestinationExisted
    /\ ~res.invoked
    /\ scans_in(fs[abspath(Destination)].root) = <<1>>

\* _save with overwrite=False and add_scan=False, a kikuchipy h5ebsd file
\* at a destination of that format, a shape the format writes.
SkipWithoutAddScan ==
    /\ op = "_save"
    /\ arg.overwrite = "False"
    /\ arg.add_scan = "False"
    /\ DestinationExisted
    /\ res.writer # 0
    /\ plugins[res.writer] = kikuchipy_h5ebsd
    /\ ~ShapeRefused
    /\ arg.fs[abspath(Destination)] = File(TRUE, kikuchipy_root(<<1>>))
    /\ arg.scan_number = 2

(* C14: _save with overwrite=False and add_scan=False on a destination of  *)
(* the kikuchipy h5ebsd format where a file is appends a new scan to the   *)
(* file instead of overwriting it.                                         *)
C14_SkipWithoutAddScanAppends ==
    SkipWithoutAddScan
    => /\ res.invoked
       /\ scans_in(fs[abspath(Destination)].root) = <<1, 2>>

(* C14, amended: with overwrite=False and add_scan=False nothing is        *)
(* written: no question is asked, the writer is not invoked and the file   *)
(* holds the scans it held; add_scan=False is what is put in the keyword   *)
(* arguments.                                                              *)
C14_SkipWithoutAddScanWritesNothing ==
    SkipWithoutAddScan
    => /\ res.t = "None"
       /\ res.asked_add_scan = "not asked"
       /\ res.asked_overwrite = "not asked"
       /\ res.kwargs.add_scan = "False"
       /\ ~res.invoked
       /\ scans_in(fs[abspath(Destination)].root) = <<1>>

\* Scan 2 is saved to p.h5, which holds Scan 1, and _save returns.
C14_Witness ==
    /\ SkipWithoutAddScan
    /\ arg.filename = f_p_h5
    /\ res.t = "None"
    /\ fs = arg.fs

----------------------------------------------------------------------------
(* Claims about the chunking functions *)

\* The axes of the signal in a call of get_chunking.
SignalAxes == (arg.nav_dim + 1)..(arg.nav_dim + arg.sig_dim)

(* C15: for every data shape, every nav_dim and sig_dim, with a            *)
(* chunk_shape and with a byte budget, the chunks get_chunking returns     *)
(* have one chunk of the full extent for each signal axis; only            *)
(* navigation axes are split.                                              *)
C15_SignalAxesNotChunked ==
    (op = "get_chunking" /\ pc = "done")
    => /\ Len(res.chunks) = Len(arg.data_shape)
       /\ \A i \in SignalAxes : res.chunks[i] = <<arg.data_shape[i]>>

\* A byte budget cuts both navigation axes of a (3, 3, 2, 2) array.
C15_Witness ==
    /\ op = "get_chunking"
    /\ pc = "done"
    /\ arg.data_shape = <<3, 3, 2, 2>>
    /\ arg.nav_dim = 2
    /\ arg.chunk_shape.none
    /\ Len(res.chunks[1]) > 1
    /\ Len(res.chunks[2]) > 1
    /\ res.chunks[3] = <<2>>
    /\ res.chunks[4] = <<2>>

\* _reduce_chunks of an array with two navigation axes.
ReducingTwoNavigationAxes ==
    op = "_reduce_chunks" /\ Len(arg.dask_array.chunks) = 4

(* C16: _reduce_chunks of an array with two navigation axes and a byte     *)
(* budget however small ends, and in the chunks it returns each of the two *)
(* navigation axes has at least one chunk and every chunk is at least 1.   *)
C16_ReduceChunksEnds ==
    /\ (ReducingTwoNavigationAxes /\ pc = "auto_chunks")
           ~> (ReducingTwoNavigationAxes /\ pc = "done")
    /\ [](ReducingTwoNavigationAxes /\ pc = "done"
          => /\ Len(res.chunks) = 4
             /\ \A i \in 1..4 :
                    /\ Len(res.chunks[i]) >= 1
                    /\ \A k \in 1..Len(res.chunks[i]) : res.chunks[i][k] >= 1)

\* With half a byte, a 3 x 2 navigation grid ends as chunks of one pattern.
C16_Witness ==
    /\ ReducingTwoNavigationAxes
    /\ pc = "done"
    /\ arg.chunk_bytes = Frac(1, 2)
    /\ arg.dask_array.chunks[1] = <<3>>
    /\ arg.dask_array.chunks[2] = <<2>>
    /\ res.chunks[1] = <<1, 1, 1>>
    /\ res.chunks[2] = <<1, 1>>

\* The two last axes of the array given to _reduce_chunks.
TrailingAxes ==
    {Len(arg.dask_array.chunks) - 1, Len(arg.dask_array.chunks)}

(* C17: in the chunks _reduce_chunks returns, each of the two last axes is *)
(* one chunk of the full extent of the axis, however the array was chunked *)
(* before.                                                                 *)
C17_TrailingAxesWhole ==
    (op = "_reduce_chunks" /\ pc = "done")
    => \A i \in TrailingAxes :
           res.chunks[i] = <<shape_of(arg.dask_array)[i]>>

(* C17, amended: each of the two last axes has the chunks the array had on *)
(* it before: it is one chunk of the full extent exactly when it was.      *)
C17_TrailingAxesAsBefore ==
    (op = "_reduce_chunks" /\ pc = "done")
    => \A i \in TrailingAxes : res.chunks[i] = arg.dask_array.chunks[i]

\* A signal axis of extent 2 in chunks (1, 1) comes back in chunks (1, 1).
C17_Witness ==
    /\ op = "_reduce_chunks"
    /\ pc = "done"
    /\ Len(arg.dask_array.chunks) = 4
    /\ arg.dask_array.chunks[4] = <<1, 1>>
    /\ res.chunks[4] = <<1, 1>>
    /\ Len(res.chunks[1]) > 1


\* _rechunk_learning_results returned the list chunks.
RechunkReturnedList ==
    op = "_rechunk_learning_results" /\ pc = "done" /\ res.t = "list"

\* The requested byte budget, mbytes_chunk * 2**20.
Budget == Frac(arg.mbytes_chunk.n * MiB, arg.mbytes_chunk.d)

\* The rows of one chunk of array a: the leading chunk edge, -1 being all rows.
chunk_rows(a, chunk) == IF chunk[1] = -1 THEN a.shape[1] ELSE chunk[1]

\* Bytes of one chunk: leading chunk edge x trailing extent x element size.
chunk_nbytes(a, chunk) == chunk_rows(a, chunk) * a.shape[2] * a.itemsize

FactorsChunkBytes == chunk_nbytes(arg.factors, res.chunks[1])
LoadingsChunkBytes == chunk_nbytes(arg.loadings, res.chunks[2])

(* C18: for factors and loadings with equal trailing extents and a         *)
(* positive budget, in the chunks _rechunk_learning_results returns the    *)
(* bytes of one factors chunk plus the bytes of one loadings chunk are at  *)
(* most the byte budget, or exceed it only with a leading chunk edge that  *)
(* is already 1 row.                                                       *)
C18_ChunkSumWithinBudget ==
    RechunkReturnedList
    => \/ int_le(FactorsChunkBytes + LoadingsChunkBytes, Budget)
       \/ chunk_rows(arg.factors, res.chunks[1]) = 1
       \/ chunk_rows(arg.loadings, res.chunks[2]) = 1

(* C18, amended: the bytes of one factors chunk and the bytes of one       *)
(* loadings chunk are each at most the byte budget; their sum is below the *)
(* budget when factors alone exceed the budget, and may exceed it, with    *)
(* chunk edges of more than 1 row, when factors alone fit.                 *)
C18_EachChunkWithinBudget ==
    RechunkReturnedList
    => /\ int_le(FactorsChunkBytes, Budget)
       /\ int_le(LoadingsChunkBytes, Budget)
       /\ res.branch = "both"
              => int_lt(FactorsChunkBytes + LoadingsChunkBytes, Budget)
       /\ res.branch = "loadings"
              => /\ FactorsChunkBytes = nbytes(arg.factors)
                 /\ int_le(nbytes(arg.factors), Budget)

\* 4 bytes of factors and 4 of loadings with a budget of 4 bytes: chunks of
\* 4 and 2 rows, 6 bytes together.
C18_Witness ==
    /\ RechunkReturnedList
    /\ arg.factors = [shape |-> <<4, 1>>, itemsize |-> 1]
    /\ arg.loadings = [shape |-> <<4, 1>>, itemsize |-> 1]
    /\ arg.mbytes_chunk = HalfBytes(8)
    /\ res.chunks = << <<-1, -1>>, <<2, -1>> >>
    /\ ~int_le(FactorsChunkBytes + LoadingsChunkBytes, Budget)

\* Factors alone are at most the budget: line 264 gives the chunks.
FactorsFit == RechunkReturnedList /\ res.branch = "loadings"

\* ceil(total_size / budget)
BudgetPieces ==
    ceil_div((nbytes(arg.factors) + nbytes(arg.loadings)) * Budget.d, Budget.n)

LoadingsRows == arg.loadings.shape[1]
LoadingsEdge == res.chunks[2][1]

(* C19: when the bytes of factors alone are at most the budget, factors    *)
(* are unchunked on both axes, only the leading axis of loadings is split, *)
(* and the returned leading chunk edge cuts that axis into exactly         *)
(* ceil(total_size / budget) pieces.                                       *)
C19_LoadingsInBudgetPieces ==
    (op = "_rechunk_learning_results" /\ pc = "done"
        /\ arg.factors.shape[2] = arg.loadings.shape[2]
        /\ int_le(nbytes(arg.factors), Budget))
    => /\ FactorsFit
       /\ res.chunks[1] = <<-1, -1>>
       /\ res.chunks[2][2] = -1
       /\ LoadingsEdge >= 1
       /\ ceil_div(LoadingsRows, LoadingsEdge) = BudgetPieces

(* C19, amended: when the bytes of factors alone are at most the budget,   *)
(* factors are unchunked on both axes, only the leading axis of loadings   *)
(* is split, and the returned leading chunk edge is                        *)
(* floor(rows / ceil(total_size / budget)): 0 when the pieces outnumber    *)
(* the rows, and otherwise an edge that cuts the axis into at least        *)
(* ceil(total_size / budget) pieces, exactly that many only when the       *)
(* number divides the rows.                                                *)
C19_LoadingsEdgeFloor ==
    (op = "_rechunk_learning_results" /\ pc = "done"
        /\ arg.factors.shape[2] = arg.loadings.shape[2]
        /\ int_le(nbytes(arg.factors), Budget))
    => /\ FactorsFit
       /\ res.chunks[1] = <<-1, -1>>
       /\ res.chunks[2][2] = -1
       /\ LoadingsEdge * BudgetPieces <= LoadingsRows
       /\ LoadingsRows < (LoadingsEdge + 1) * BudgetPieces
       /\ LoadingsEdge = 0 <=> BudgetPieces > LoadingsRows
       /\ LoadingsEdge >= 1
              => /\ ceil_div(LoadingsRows, LoadingsEdge) >= BudgetPieces
                 /\ ceil_div(LoadingsRows, LoadingsEdge) = BudgetPieces
                        <=> LoadingsRows % BudgetPieces = 0

\* 1 byte of factors, 3 rows of loadings and a budget of 2 bytes: 2 pieces
\* asked, an edge of 1 row, 3 pieces.
C19_Witness ==
    /\ FactorsFit
    /\ arg.factors = [shape |-> <<1, 1>>, itemsize |-> 1]
    /\ arg.loadings = [shape |-> <<3, 1>>, itemsize |-> 1]
    /\ arg.mbytes_chunk = HalfBytes(4)
    /\ BudgetPieces = 2
    /\ res.chunks = << <<-1, -1>>, <<1, -1>> >>

(* C20: for factors and loadings with equal trailing extents and a budget  *)
(* greater than zero, the halving loop of _rechunk_learning_results ends   *)
(* with both sizes greater than zero, so that both split counts are        *)
(* defined and the chunks are returned.                                    *)
C20_HalvingEndsWithPositiveSizes ==
    (op = "_rechunk_learning_results" /\ pc = "done" /\ res.branch = "both")
    => /\ res.sizes[1] > 0
       /\ res.sizes[2] > 0
       /\ res.t = "list"

\* A leading chunk edge is between 1 and the rows of its array.
edge_in_rows(a, chunk) == chunk_rows(a, chunk) \in 1..a.shape[1]

(* C21: every leading chunk edge _rechunk_learning_results returns, when   *)
(* factors fit in the budget and when both arrays are split, is an integer *)
(* between 1 and the length of its axis; an edge of 0 is never returned,   *)
(* also when the number of pieces computed exceeds the rows of the axis.   *)
C21_LeadingEdgesAtLeastOne ==
    RechunkReturnedList
    => /\ edge_in_rows(arg.factors, res.chunks[1])
       /\ edge_in_rows(arg.loadings, res.chunks[2])

============================================================================
